---- MODULE Spec2Model ----
(***************************************************************************)
(* Model of the failover orchestrator HybridQwenServer                     *)
(* (src/backend/server.py): Direct API first, browser automation as the    *)
(* fallback, and the running performance statistics.                       *)
(*                                                                         *)
(* Python values that the code inspects dynamically (JSON bodies, result   *)
(* dictionaries) are modelled as tagged values so that dict.get on a       *)
(* non-dict, indexing and truthiness behave as in the interpreter.         *)
(* Durations and averages are exact rationals <<numerator, denominator>>;  *)
(* floating-point rounding is not modelled.                                *)
(***************************************************************************)
EXTENDS Integers, Sequences, FiniteSets, TLC

\* ------------------------------------------------------------------ bounds
\* Number of orchestrator calls (send_message, generate_image, get_models)
\* in one behaviour.
MaxCalls == 2

\* Durations time.time() - start_time range over 0..MaxDur (whole units).
MaxDur == 1

\* Number of get_performance_stats snapshots taken in one behaviour.
MaxSnapshots == 1

Durations == 0..MaxDur

\* ------------------------------------------------------- Python values
JNone == [t |-> "none"]
JStr(s) == [t |-> "str", v |-> s]
JList(s) == [t |-> "list", v |-> s]
JDict(f) == [t |-> "dict", v |-> f]
JBool(b) == [t |-> "bool", v |-> b]
EmptyDict == JDict(<<>>)

IsDict(x) == x.t = "dict"

\* bool(x) of the interpreter
Truthy(x) ==
    CASE x.t = "none" -> FALSE
      [] x.t = "str"  -> x.v # ""
      [] x.t = "list" -> Len(x.v) > 0
      [] x.t = "dict" -> DOMAIN x.v # {}
      [] x.t = "bool" -> x.v

\* d.get(k, default) for a dict d
DictGet(d, k, default) == IF k \in DOMAIN d.v THEN d.v[k] ELSE default

\* result.get(k, default) for a result dictionary (a record of the model)
ResGet(r, k, default) == IF k \in DOMAIN r THEN r[k] ELSE default

\* ------------------------------------------------------------ rationals
RECURSIVE GCD(_, _)
GCD(a, b) == IF b = 0 THEN a ELSE GCD(b, a % b)

Norm(n, d) == LET g == GCD(n, d) IN IF g = 0 THEN <<0, 1>> ELSE <<n \div g, d \div g>>

Zero == <<0, 1>>
RatOfInt(i) == <<i, 1>>
RatPos(r) == r[1] > 0
RatMulInt(r, i) == Norm(r[1] * i, r[2])
RatAddInt(r, i) == Norm(r[1] + i * r[2], r[2])
RatDivInt(r, i) == Norm(r[1], r[2] * i)
RatDiv(a, b) == Norm(a[1] * b[2], a[2] * b[1])

\* ------------------------------------------------- Performance Aggregate
\* self.performance_stats as set by __init__
InitialStats ==
    [direct_api_calls |-> 0, browser_fallback_calls |-> 0,
     avg_direct_time |-> Zero, avg_browser_time |-> Zero]

\* Variant: the previous average weighted by count instead of count - 1.
RunningAverageOverweighted(prev_avg, count, duration) ==
    RatDivInt(RatAddInt(RatMulInt(prev_avg, count), duration), count)

\* ((prev_avg * (count - 1)) + duration) / count
RunningAverage(prev_avg, count, duration) ==
    RatDivInt(RatAddInt(RatMulInt(prev_avg, count - 1), duration), count)

\* The counter and average update of _record_performance for one path.
UpdateStats(stats, duration, api_type) ==
    IF api_type = "direct"
    THEN LET count == stats.direct_api_calls + 1 IN
         [stats EXCEPT !.direct_api_calls = count,
                       !.avg_direct_time =
                           RunningAverage(stats.avg_direct_time, count, duration)]
    ELSE LET count == stats.browser_fallback_calls + 1 IN
         [stats EXCEPT !.browser_fallback_calls = count,
                       !.avg_browser_time =
                           RunningAverage(stats.avg_browser_time, count, duration)]

\* Guard of the speed-improvement division in _record_performance.
RecordDivides(stats) == RatPos(stats.avg_browser_time)

\* _record_performance(method, duration, api_type): the new statistics,
\* whether the speed-improvement division was performed, its divisor, and
\* whether it raised ZeroDivisionError.
RecordPerformance(stats, duration, api_type) ==
    LET new == UpdateStats(stats, duration, api_type)
        divided == RecordDivides(new)
    IN  [stats   |-> new,
         divided |-> divided,
         divisor |-> new.avg_direct_time,
         raised  |-> divided /\ new.avg_direct_time = Zero]

\* Guard of the speed_improvement entry in get_performance_stats.
SnapshotHasSpeed(stats) ==
    RatPos(stats.avg_browser_time) /\ RatPos(stats.avg_direct_time)

\* get_performance_stats(): a copy of the statistics with the derived entries.
PerformanceSnapshot(stats) ==
    LET total_calls == stats.direct_api_calls + stats.browser_fallback_calls
        ratios == IF total_calls > 0
                  THEN [direct_api_ratio |->
                            Norm(stats.direct_api_calls * 100, total_calls),
                        browser_fallback_ratio |->
                            Norm(stats.browser_fallback_calls * 100, total_calls)]
                  ELSE <<>>
        speed == IF SnapshotHasSpeed(stats)
                 THEN [speed_improvement |->
                           RatDiv(stats.avg_browser_time, stats.avg_direct_time)]
                 ELSE <<>>
    IN  speed @@ ratios @@ stats

\* ------------------------------------------------ Model Capability Table
\* Model names are sequences of one-character strings, so that lower() and
\* the "in" substring test are computed character by character.
Uppercase == <<"A", "B", "C", "D", "E", "F", "G", "H", "I", "J", "K", "L", "M",
               "N", "O", "P", "Q", "R", "S", "T", "U", "V", "W", "X", "Y", "Z">>
Lowercase == <<"a", "b", "c", "d", "e", "f", "g", "h", "i", "j", "k", "l", "m",
               "n", "o", "p", "q", "r", "s", "t", "u", "v", "w", "x", "y", "z">>

\* str.lower() on one character and on a string
LowerChar(c) ==
    IF \E i \in 1..26 : Uppercase[i] = c
    THEN Lowercase[CHOOSE i \in 1..26 : Uppercase[i] = c]
    ELSE c
Lower(s) == [i \in 1..Len(s) |-> LowerChar(s[i])]

\* "pat in s"
Contains(pat, s) ==
    \E i \in 1..(Len(s) - Len(pat) + 1) : SubSeq(s, i, i + Len(pat) - 1) = pat

NoName == [t |-> "none"]
Name(s) == [t |-> "name", v |-> s]

S_coder == <<"c", "o", "d", "e", "r">>
S_vl == <<"v", "l">>
S_vision == <<"v", "i", "s", "i", "o", "n">>
S_qvq == <<"q", "v", "q">>
S_qwq == <<"q", "w", "q">>
S_max == <<"m", "a", "x">>
S_plus == <<"p", "l", "u", "s">>
S_235b == <<"2", "3", "5", "b">>
S_omni == <<"o", "m", "n", "i">>

\* model_name.lower() if model_name else ""
ModelLower(model_name) ==
    IF model_name.t = "name" /\ Len(model_name.v) > 0 THEN Lower(model_name.v) ELSE <<>>

\* Variant: the vision test precedes the coder test.
ModelCategoryVisionFirst(model_lower) ==
    IF \E x \in {S_vl, S_vision, S_qvq} : Contains(x, model_lower) THEN "vision"
    ELSE IF Contains(S_coder, model_lower) THEN "coding"
    ELSE IF Contains(S_qwq, model_lower) THEN "reasoning"
    ELSE IF \E x \in {S_max, S_plus, S_235b} : Contains(x, model_lower) THEN "advanced"
    ELSE IF Contains(S_omni, model_lower) THEN "multimodal"
    ELSE "standard"

\* The if / elif cascade of _get_model_config: the branch taken.
ModelCategory(model_lower) ==
    IF Contains(S_coder, model_lower) THEN "coding"
    ELSE IF \E x \in {S_vl, S_vision, S_qvq} : Contains(x, model_lower) THEN "vision"
    ELSE IF Contains(S_qwq, model_lower) THEN "reasoning"
    ELSE IF \E x \in {S_max, S_plus, S_235b} : Contains(x, model_lower) THEN "advanced"
    ELSE IF Contains(S_omni, model_lower) THEN "multimodal"
    ELSE "standard"

\* The dictionary returned by each branch; temperatures are in tenths.
CategoryConfig(category) ==
    CASE category = "coding" ->
           [category |-> "coding", supports_web_search |-> TRUE, supports_files |-> TRUE,
            optimal_temperature |-> 1, max_tokens |-> 4096, thinking_enabled |-> TRUE,
            output_schema |-> "phase",
            feature_config |-> [thinking_enabled |-> TRUE, output_schema |-> "phase",
                                code_completion |-> TRUE]]
      [] category = "vision" ->
           [category |-> "vision", supports_web_search |-> TRUE, supports_files |-> TRUE,
            optimal_temperature |-> 3,
            max_tokens |-> 2048, thinking_enabled |-> FALSE, output_schema |-> "phase",
            feature_config |-> [thinking_enabled |-> FALSE, output_schema |-> "phase",
                                vision_enabled |-> TRUE],
            supports_images |-> TRUE]
      [] category = "reasoning" ->
           [category |-> "reasoning", supports_web_search |-> TRUE, supports_files |-> TRUE,
            optimal_temperature |-> 2, max_tokens |-> 8192, thinking_enabled |-> TRUE,
            output_schema |-> "thinking",
            feature_config |-> [thinking_enabled |-> TRUE, output_schema |-> "thinking",
                                step_by_step |-> TRUE]]
      [] category = "advanced" ->
           [category |-> "advanced", supports_web_search |-> TRUE, supports_files |-> TRUE,
            optimal_temperature |-> 3,
            max_tokens |-> 6144, thinking_enabled |-> TRUE, output_schema |-> "phase",
            feature_config |-> [thinking_enabled |-> TRUE, output_schema |-> "phase",
                                advanced_reasoning |-> TRUE, image_generation |-> TRUE],
            supports_images |-> TRUE]
      [] category = "multimodal" ->
           [category |-> "multimodal", supports_web_search |-> TRUE, supports_files |-> TRUE,
            optimal_temperature |-> 3,
            max_tokens |-> 4096, thinking_enabled |-> FALSE, output_schema |-> "phase",
            feature_config |-> [thinking_enabled |-> FALSE, output_schema |-> "phase",
                                multimodal |-> TRUE],
            supports_audio |-> TRUE]
      [] category = "standard" ->
           [category |-> "standard", supports_web_search |-> TRUE, supports_files |-> TRUE,
            optimal_temperature |-> 3, max_tokens |-> 2048, thinking_enabled |-> FALSE,
            output_schema |-> "phase",
            feature_config |-> [thinking_enabled |-> FALSE, output_schema |-> "phase"]]

\* _get_model_config(model_name)
GetModelConfig(model_name) == CategoryConfig(ModelCategory(ModelLower(model_name)))

\* model_name or "qwen3-235b-a22b"
DefaultModel == Name(<<"q", "w", "e", "n", "3", "-", "2", "3", "5", "b", "-", "a", "2", "2", "b">>)
EffectiveModel(model_name) ==
    IF model_name.t = "name" /\ Len(model_name.v) > 0 THEN model_name ELSE DefaultModel

\* Model names of the model: up to MaxFragments fragments joined together.
MaxFragments == 2

Fragments ==
    { S_coder, <<"C", "o", "d", "e", "r">>, <<"C", "O", "D", "E", "R">>,
      S_vl, <<"V", "L">>, S_vision, S_qvq, <<"Q", "w", "Q">>, S_max, S_plus, S_235b,
      S_omni, <<"q", "w", "e", "n">>, <<"t", "u", "r", "b", "o">>, <<"-">>, <<"v">>,
      <<"l">>, <<"3">> }

RECURSIVE Joined(_)
Joined(n) ==
    IF n = 0 THEN { <<>> }
    ELSE LET shorter == Joined(n - 1) IN
         shorter \cup { a \o f : a \in shorter, f \in Fragments }

ModelNames == { NoName } \cup { Name(s) : s \in Joined(MaxFragments) }

\* ------------------------------------------ collaborators' result values
\* Remote JSON bodies of the chat completion endpoint, as decoded by
\* response.json() and placed under the result's "data" key.
Choice(content) == JDict([message |-> JDict([content |-> content])])
Body(choices) == JDict([data |-> JDict([choices |-> choices])])

ChatBodies ==
    { JNone,                                        \* body is null
      EmptyDict,                                    \* body without "data"
      JDict([data |-> JNone]),                      \* "data": null
      JDict([data |-> EmptyDict]),                  \* no "choices"
      Body(JList(<<>>)),                            \* "choices": []
      Body(JStr("x")),                              \* "choices" is not a list
      Body(JList(<<JStr("x")>>)),                   \* choices[0] is not an object
      Body(JList(<<EmptyDict>>)),                   \* no "message"
      Body(JList(<<JDict([message |-> JNone])>>)),  \* "message": null
      Body(JList(<<JDict([message |-> EmptyDict])>>)), \* no "content"
      Body(JList(<<Choice(JStr("hi"))>>)),
      Body(JList(<<Choice(JStr(""))>>)) }

\* Bodies that are also offered together with a flat "response" field.
FlatBodies ==
    { JDict([data |-> EmptyDict]), Body(JList(<<>>)), Body(JList(<<Choice(JStr("hi"))>>)) }

\* Results of send_chat_completion / send_chat_with_web_search /
\* send_chat_with_files as the orchestrator sees them.
DirectChatResults ==
    { [data |-> b, success |-> TRUE, chat_id |-> JStr("c1")] : b \in ChatBodies }
    \cup { [data |-> b, success |-> TRUE, chat_id |-> JStr("c1"), response |-> JStr("yo")] :
             b \in FlatBodies }
    \cup { [success |-> TRUE, chat_id |-> JStr("c1"), response |-> JStr(r)] : r \in {"hi", ""} }
    \cup { [success |-> FALSE, error |-> "Chat completion failed"] }

\* Results of the Direct client's generate_image.
DirectImageResults ==
    { [success |-> TRUE, chat_id |-> JStr("c1"), image_url |-> u] :
          u \in {JStr("http://img/direct.png"), JStr(""), JNone} }
    \cup { [success |-> TRUE, chat_id |-> JStr("c1")],
           [success |-> FALSE, error |-> "Image generation failed"] }

\* Results of the Direct client's get_available_models.
DirectModelsResults ==
    { [count |-> 1, data |-> JList(<<JStr("qwen3-235b-a22b")>>), success |-> TRUE],
      [success |-> FALSE, error |-> "Failed to get models"] }

DirectResults(o) ==
    CASE o = "chat"   -> DirectChatResults
      [] o = "image"  -> DirectImageResults
      [] o = "models" -> DirectModelsResults

\* ask_qwen / generate_qwen_image / get_available_models of the browser
\* collaborator: the fixed failure result of the stand-in functions, and a
\* successful result of a working collaborator.
BrowserResults(o) ==
    CASE o = "chat" ->
           { [success |-> FALSE, response |-> JStr("Direct API only"),
              error |-> "Browser automation not available"],
             [success |-> TRUE, chat_id |-> JStr("b1"), response |-> JStr("from browser")] }
      [] o = "image" ->
           { [success |-> FALSE, error |-> "Browser image generation not available",
              image_url |-> JNone],
             [success |-> TRUE, image_url |-> JStr("http://img/browser.png")] }
      [] o = "models" ->
           { [data |-> JList(<<>>), success |-> FALSE,
              error |-> "Browser model fetching not available"],
             [data |-> JList(<<JStr("qwen-browser")>>), success |-> TRUE] }

NoOutcome == [kind |-> "none"]
Raise(e) == [kind |-> "raise", exc |-> e]
Result(r) == [kind |-> "result", result |-> r]

\* What a collaborator call can do: return one of its results or raise.
DirectOutcomes(o) == { Result(r) : r \in DirectResults(o) } \cup { Raise("DirectError") }
BrowserOutcomes(o) == { Result(r) : r \in BrowserResults(o) } \cup { Raise("BrowserError") }

\* --------------------------------------------- orchestrator's judgements
\* Variant: the flat "response" field is consulted before the nested path.
ExtractResponseFlatFirst(result) ==
    IF Truthy(ResGet(result, "response", JNone))
    THEN [raised |-> FALSE, text |-> result.response]
    ELSE LET d1 == ResGet(result, "data", EmptyDict) IN
         IF ~IsDict(d1) THEN [raised |-> TRUE, text |-> JNone] ELSE
         LET d2 == DictGet(d1, "data", EmptyDict) IN
         IF ~IsDict(d2) THEN [raised |-> TRUE, text |-> JNone] ELSE
         LET choices == DictGet(d2, "choices", JNone) IN
         IF ~Truthy(choices) THEN [raised |-> FALSE, text |-> JStr("")] ELSE
         IF choices.t # "list" THEN [raised |-> TRUE, text |-> JNone] ELSE
         LET c0 == choices.v[1] IN
         IF ~IsDict(c0) THEN [raised |-> TRUE, text |-> JNone] ELSE
         LET m == DictGet(c0, "message", EmptyDict) IN
         IF ~IsDict(m) THEN [raised |-> TRUE, text |-> JNone] ELSE
         [raised |-> FALSE, text |-> DictGet(m, "content", JStr(""))]

\* send_message: extraction of the response text from an accepted direct
\* result; raised is TRUE where the interpreter raises (caught by the
\* enclosing "except Exception").
ExtractResponse(result) ==
    LET d1 == ResGet(result, "data", EmptyDict) IN
    IF ~IsDict(d1) THEN [raised |-> TRUE, text |-> JNone] ELSE
    LET d2 == DictGet(d1, "data", EmptyDict) IN
    IF ~IsDict(d2) THEN [raised |-> TRUE, text |-> JNone] ELSE
    LET choices == DictGet(d2, "choices", JNone) IN
    IF Truthy(choices)
    THEN IF choices.t # "list" THEN [raised |-> TRUE, text |-> JNone] ELSE
         LET c0 == choices.v[1] IN
         IF ~IsDict(c0) THEN [raised |-> TRUE, text |-> JNone] ELSE
         LET m == DictGet(c0, "message", EmptyDict) IN
         IF ~IsDict(m) THEN [raised |-> TRUE, text |-> JNone] ELSE
         [raised |-> FALSE, text |-> DictGet(m, "content", JStr(""))]
    ELSE IF Truthy(ResGet(result, "response", JNone))
         THEN [raised |-> FALSE, text |-> result.response]
         ELSE [raised |-> FALSE, text |-> JStr("")]

\* Variant: the bare success flag decides for every operation.
DirectAcceptedBySuccessFlag(o, result) == result.success

\* Whether the orchestrator accepts a direct result as the call's outcome.
DirectAccepted(o, result) ==
    CASE o = "chat"   -> result.success
      [] o = "image"  -> result.success /\ Truthy(ResGet(result, "image_url", JNone))
      [] o = "models" -> result.success

\* The value returned on the direct path once the result is accepted.
DirectReturn(o, result) ==
    IF o = "chat"
    THEN [data |-> ResGet(result, "data", JNone),
          success |-> TRUE,
          chat_id |-> ResGet(result, "chat_id", JNone),
          response |-> ExtractResponse(result).text]
    ELSE result

\* generate_image: the failure dictionary built by "except Exception as e".
ImageFailure(e) ==
    [success |-> FALSE, chat_id |-> JNone,
     error |-> "Image generation failed: " \o e, image_url |-> JNone]

\* ------------------------------------------- Direct client: HTTP exchanges
\* What self.session.get / self.session.post can do: raise a transport
\* error, or return a response with a status code and a body.
TransportError == [kind |-> "transport_error"]
Http(code, body) == [kind |-> "response", code |-> code, body |-> body]

\* A body for which response.json() raises.
Undecodable == [t |-> "undecodable"]

\* An exception raised while evaluating an expression.
Exc(e) == [t |-> "exc", v |-> e]
IsExc(x) == x.t = "exc"

\* "response = self.session.<verb>(...); response.raise_for_status();
\* response.json()": the decoded body or the exception.
Decode(resp) ==
    IF resp.kind = "transport_error" THEN Exc("ConnectionError")
    ELSE IF resp.code >= 400 THEN Exc("HTTPError")
    ELSE IF resp.body = Undecodable THEN Exc("JSONDecodeError")
    ELSE resp.body

\* x.get(k, default): AttributeError unless x is a dict
PyGet(x, k, default) ==
    IF IsExc(x) THEN x
    ELSE IF IsDict(x) THEN DictGet(x, k, default)
    ELSE Exc("AttributeError")

\* "except Exception as e: return {"success": False, "error": f"<what>: {e}"}"
Failure(what, e) == [success |-> FALSE, error |-> what \o ": " \o e]

\* get_auth_status and get_user_settings: any decodable body is a success.
GetBody(what, resp) ==
    LET data == Decode(resp) IN
    IF IsExc(data) THEN Failure(what, data.v)
    ELSE [data |-> data, success |-> TRUE]

GetAuthStatus(resp) == GetBody("Auth check failed", resp)
GetUserSettings(resp) == GetBody("Failed to get user settings", resp)

\* len(x) as the GET operations use it: TypeError for None and bool
PyLen(x) ==
    CASE x.t \in {"str", "list"} -> Len(x.v)
      [] x.t = "dict" -> Cardinality(DOMAIN x.v)
      [] OTHER -> -1

\* get_available_models: "models = data.get('data', []) if isinstance(data,
\* dict) else data" and len(models).
GetAvailableModels(resp) ==
    LET data == Decode(resp) IN
    IF IsExc(data) THEN Failure("Failed to get models", data.v) ELSE
    LET models == IF IsDict(data) THEN DictGet(data, "data", JList(<<>>)) ELSE data IN
    IF PyLen(models) < 0 THEN Failure("Failed to get models", "TypeError")
    ELSE [count |-> PyLen(models), data |-> models, success |-> TRUE]

\* list_conversations and get_folders: data.get('data', []) and its len().
GetListed(what, resp) ==
    LET data == Decode(resp) IN
    IF IsExc(data) THEN Failure(what, data.v) ELSE
    LET listed == PyGet(data, "data", JList(<<>>)) IN
    IF IsExc(listed) THEN Failure(what, listed.v)
    ELSE IF PyLen(listed) < 0 THEN Failure(what, "TypeError")
    ELSE [count |-> PyLen(listed), data |-> listed, success |-> TRUE]

GetFolders(resp) == GetListed("Failed to get folders", resp)

\* list_conversations: as get_folders, with "total" and "page" for "count".
ListConversations(resp) ==
    LET r == GetListed("Failed to list conversations", resp) IN
    IF ~r.success THEN r
    ELSE [data |-> r.data, success |-> TRUE,
          total |-> DictGet(Decode(resp), "total", r.count), page |-> 1]

\* create_new_chat
CreateNewChat(resp) ==
    LET data == Decode(resp) IN
    IF IsExc(data) THEN Failure("Failed to create chat", data.v) ELSE
    LET inner == PyGet(data, "data", EmptyDict)
        id == PyGet(inner, "id", JNone)
    IN  IF IsExc(id) THEN Failure("Failed to create chat", id.v)
        ELSE [data |-> inner, success |-> TRUE, chat_id |-> id]

\* upload_file: the file is read first, then posted.
UploadFile(readable, resp) ==
    IF ~readable THEN Failure("File upload failed", "FileNotFoundError") ELSE
    LET data == Decode(resp) IN
    IF IsExc(data) THEN Failure("File upload failed", data.v) ELSE
    LET file_id == PyGet(PyGet(data, "data", EmptyDict), "file_id", JNone) IN
    IF IsExc(file_id) THEN Failure("File upload failed", file_id.v)
    ELSE [data |-> data, success |-> TRUE, file_id |-> file_id, file_name |-> "a.txt"]

\* Variant: a conversation is created for every message.
NeedsNewChatAlways(chat_id) == TRUE

\* "if not chat_id:" of the chat operations and generate_image
NeedsNewChat(chat_id) == ~Truthy(chat_id)

\* "chat_id = chat_result['data']['id']" for a successful chat_result
CreatedChatId(chat_result) ==
    IF ~IsDict(chat_result.data) THEN Exc("TypeError")
    ELSE IF "id" \notin DOMAIN chat_result.data.v THEN Exc("KeyError")
    ELSE chat_result.data.v.id

\* Number of events in the longest event stream of a streamed completion.
MaxEvents == 2

\* The decoded data of one server-sent event: a partial-content event with
\* the text of its delta.
Delta(text) == JDict([choices |-> JList(<<JDict([delta |-> JDict([content |-> JStr(text)])])>>)])

\* What one event of the stream can be: partial content, the event with the
\* completion marker, data that is not JSON, JSON that is not an object, a
\* choice whose delta is null, and a choice without a delta.
StreamEvents ==
    { Delta("he"), Delta("llo"), Delta("completed"),
      JDict([choices |-> JList(<<JDict([delta |-> EmptyDict])>>), finish_reason |-> JStr("stop")]),
      Undecodable,
      JList(<<>>),
      JDict([choices |-> JList(<<JDict([delta |-> JNone])>>)]),
      JDict([choices |-> JList(<<EmptyDict>>)]) }

\* The body of a streamed response: its events in order.
Events(es) == [t |-> "events", v |-> es]
StreamBodies ==
    { Events(es) : es \in UNION { [1..n -> StreamEvents] : n \in 0..MaxEvents } }

\* "'completed' in <text>" for the texts of the model.
MentionsCompleted(text) == text \in {"completed"}

\* "'completed' in event.data": the raw text of a decoded event holds the
\* word when one of its keys or strings does.
RECURSIVE RawMentionsCompleted(_)
RawMentionsCompleted(x) ==
    CASE x.t = "str" -> MentionsCompleted(x.v)
      [] x.t = "list" -> \E i \in 1..Len(x.v) : RawMentionsCompleted(x.v[i])
      [] x.t = "dict" -> \E k \in DOMAIN x.v :
                            MentionsCompleted(k) \/ RawMentionsCompleted(x.v[k])
      [] OTHER -> FALSE

\* "delta = choices[0].get('delta', {}); content = delta.get('content', '')"
DeltaContent(choices) ==
    IF choices.t # "list" THEN Exc("KeyError")
    ELSE PyGet(PyGet(choices.v[1], "delta", EmptyDict), "content", JStr(""))

\* "if data.get('finish_reason') or 'completed' in event.data: break"
EndsConsumption(data) ==
    Truthy(DictGet(data, "finish_reason", JNone)) \/ RawMentionsCompleted(data)

\* The loop "for event in client.events()": the accumulated text, or the
\* exception that leaves the loop.  json.JSONDecodeError alone is caught
\* inside the loop.
RECURSIVE ConsumeEvents(_, _)
ConsumeEvents(events, full_response) ==
    IF events = <<>> THEN JStr(full_response) ELSE
    LET data == Head(events) IN
    IF data = Undecodable THEN ConsumeEvents(Tail(events), full_response) ELSE
    LET choices == PyGet(data, "choices", JList(<<>>)) IN
    IF IsExc(choices) THEN choices ELSE
    LET content == IF Truthy(choices) THEN DeltaContent(choices) ELSE JStr("") IN
    IF IsExc(content) THEN content ELSE
    IF Truthy(content) /\ content.t # "str" THEN Exc("TypeError") ELSE
    LET text == IF Truthy(content) THEN full_response \o content.v ELSE full_response IN
    IF EndsConsumption(data) THEN JStr(text)
    ELSE ConsumeEvents(Tail(events), text)

\* _handle_streaming_response; a body that is no event stream yields no event.
HandleStreamingResponse(resp, chat_id) ==
    IF resp.kind = "transport_error" THEN Failure("Streaming error", "ConnectionError")
    ELSE IF resp.code >= 400 THEN Failure("Streaming error", "HTTPError")
    ELSE LET full_response == ConsumeEvents(IF resp.body = Undecodable THEN <<>>
                                            ELSE resp.body.v, "") IN
         IF IsExc(full_response) THEN Failure("Streaming error", full_response.v)
         ELSE [success |-> TRUE, chat_id |-> chat_id, response |-> full_response]

\* The completion request of send_chat_completion, send_chat_with_files and
\* send_chat_with_web_search, and the result built from its response.
ChatResult(what, stream, resp, chat_id) ==
    IF stream THEN HandleStreamingResponse(resp, chat_id) ELSE
    LET data == Decode(resp) IN
    IF IsExc(data) THEN Failure(what, data.v)
    ELSE [data |-> data, success |-> TRUE, chat_id |-> chat_id]

ChatOps == {"send_chat_completion", "send_chat_with_files", "send_chat_with_web_search"}

ChatFailureText(o) ==
    CASE o = "send_chat_completion" -> "Chat completion failed"
      [] o = "send_chat_with_files" -> "Chat with files failed"
      [] o = "send_chat_with_web_search" -> "Web search chat failed"
      [] o = "generate_image" -> "Image generation failed"

\* ------------------------------------------- Direct client: generate_image
\* "d.get(k1) or d.get(k2) or ...": the first truthy value, None otherwise
\* (a falsy value is never used).
RECURSIVE FirstTruthy(_, _)
FirstTruthy(d, keys) ==
    IF keys = <<>> THEN JNone
    ELSE IF Truthy(DictGet(d, Head(keys), JNone)) THEN DictGet(d, Head(keys), JNone)
    ELSE FirstTruthy(d, Tail(keys))

\* The loop over response_data['tool_results'].
RECURSIVE ToolResultsUrl(_)
ToolResultsUrl(items) ==
    IF items = <<>> THEN JNone
    ELSE IF ~IsDict(Head(items)) THEN Exc("AttributeError")
    ELSE LET url == FirstTruthy(Head(items), <<"image_url", "url", "output">>) IN
         IF DictGet(Head(items), "tool_name", JNone) = JStr("image_gen") /\ Truthy(url)
         THEN url
         ELSE ToolResultsUrl(Tail(items))

\* The loop over response_data['mcp_results']: the items whose text mentions
\* image_gen or wanx are those whose tool_name does.
RECURSIVE McpResultsUrl(_)
McpResultsUrl(items) ==
    IF items = <<>> THEN JNone
    ELSE LET item == Head(items)
             url == FirstTruthy(item, <<"image_url", "url", "output">>) IN
         IF IsDict(item)
            /\ DictGet(item, "tool_name", JNone) \in {JStr("image_gen"), JStr("wanx")}
            /\ Truthy(url)
         THEN url
         ELSE McpResultsUrl(Tail(items))

\* The loop over message['attachments'] with the accepted attachment types.
RECURSIVE AttachmentUrl(_, _)
AttachmentUrl(items, types) ==
    IF items = <<>> THEN JNone
    ELSE IF ~IsDict(Head(items)) THEN Exc("AttributeError")
    ELSE IF DictGet(Head(items), "type", JNone) \in types
            /\ Truthy(DictGet(Head(items), "url", JNone))
         THEN Head(items).v.url
         ELSE AttachmentUrl(Tail(items), types)

\* re.findall of the url_patterns over the message content, tabulated for
\* the contents of the model: the first image URL in the text, if any.
ContentUrl(content) ==
    IF content.t # "str" THEN Exc("TypeError")
    ELSE IF content.v = "Here it is: https://cdn.qwen.ai/a.png" THEN JStr("https://cdn.qwen.ai/a.png")
    ELSE JNone

\* The "choices" part of generate_image's extraction: attachments, then
\* URLs in the content.
ChoicesUrl(choices) ==
    IF ~Truthy(choices) THEN JNone
    ELSE IF choices.t # "list" THEN Exc("KeyError")
    ELSE LET choice == choices.v[1] IN
         IF choice.t = "none" THEN Exc("TypeError")
         ELSE IF ~IsDict(choice) \/ "message" \notin DOMAIN choice.v THEN JNone
         ELSE LET message == choice.v.message IN
              IF message.t = "none" THEN Exc("TypeError")
              ELSE IF ~IsDict(message) THEN Exc("AttributeError")
              ELSE LET attached ==
                         IF "attachments" \notin DOMAIN message.v THEN JNone
                         ELSE IF message.v.attachments.t # "list" THEN Exc("TypeError")
                         ELSE AttachmentUrl(message.v.attachments.v,
                                            {JStr("image"), JStr("picture"), JStr("file")})
                   IN IF IsExc(attached) \/ Truthy(attached) THEN attached
                      ELSE ContentUrl(DictGet(message, "content", JStr("")))

SearchKeys ==
    <<"image_url", "url", "file_url", "attachment_url", "generated_image",
      "wanx_image_url", "result_url", "output_url", "media_url">>

\* Each stage of the extraction runs only "if not image_url"; an exception
\* ends the extraction.
OrElse(found, next) == IF IsExc(found) \/ Truthy(found) THEN found ELSE next

\* generate_image: the image URL extracted from the decoded body, None when
\* there is none, or the exception raised on the way.
ImageUrlOf(data) ==
    IF ~IsDict(data) THEN Exc("AttributeError")
    ELSE IF ~(Truthy(DictGet(data, "success", JNone)) /\ "data" \in DOMAIN data.v) THEN JNone
    ELSE LET response_data == data.v.data IN
         IF response_data.t \in {"none", "bool"} THEN Exc("TypeError")
         ELSE IF ~IsDict(response_data) THEN JNone
         ELSE LET rd == response_data.v
                  tool == IF "tool_results" \in DOMAIN rd /\ rd.tool_results.t = "list"
                          THEN ToolResultsUrl(rd.tool_results.v) ELSE JNone
                  mcp == IF "mcp_results" \in DOMAIN rd /\ rd.mcp_results.t = "list"
                         THEN McpResultsUrl(rd.mcp_results.v) ELSE JNone
                  chc == IF "choices" \in DOMAIN rd THEN ChoicesUrl(rd.choices) ELSE JNone
                  key == FirstTruthy(response_data, SearchKeys)
              IN  OrElse(tool, OrElse(mcp, OrElse(chc, key)))

SearchLocations ==
    <<"tool_calls", "tool_results", "mcp_results", "function_calls",
      "attachments", "files", "media", "images">>

\* The loop over the items of one search location.
RECURSIVE ItemsUrl(_)
ItemsUrl(items) ==
    IF items = <<>> THEN JNone
    ELSE LET url == IF IsDict(Head(items))
                    THEN FirstTruthy(Head(items), <<"url", "image_url", "file_url",
                                                    "attachment_url", "output">>)
                    ELSE JNone IN
         IF Truthy(url) THEN url ELSE ItemsUrl(Tail(items))

RECURSIVE LocationsUrl(_, _)
LocationsUrl(rd, locations) ==
    IF locations = <<>> THEN JNone
    ELSE LET here == IF Head(locations) \in DOMAIN rd /\ rd[Head(locations)].t = "list"
                     THEN ItemsUrl(rd[Head(locations)].v) ELSE JNone IN
         IF Truthy(here) THEN here ELSE LocationsUrl(rd, Tail(locations))

\* The "choices" fallback of _extract_image_url_from_response.
AltChoicesUrl(choices) ==
    IF ~Truthy(choices) THEN JNone
    ELSE IF choices.t # "list" THEN Exc("KeyError")
    ELSE LET choice == choices.v[1] IN
         IF choice.t = "none" THEN Exc("TypeError")
         ELSE IF ~IsDict(choice) \/ "message" \notin DOMAIN choice.v THEN JNone
         ELSE LET message == choice.v.message IN
              IF message.t = "none" THEN Exc("TypeError")
              ELSE IF ~IsDict(message) \/ "attachments" \notin DOMAIN message.v THEN JNone
              ELSE IF message.v.attachments.t # "list" THEN Exc("TypeError")
              ELSE AttachmentUrl(message.v.attachments.v, {JStr("image"), JStr("picture")})

\* _extract_image_url_from_response
ExtractImageUrlFromResponse(data) ==
    IF ~IsDict(data) THEN Exc("AttributeError")
    ELSE IF ~Truthy(DictGet(data, "success", JNone)) \/ "data" \notin DOMAIN data.v THEN JNone
    ELSE LET response_data == data.v.data IN
         IF response_data.t \in {"none", "bool"} THEN Exc("TypeError")
         ELSE IF ~IsDict(response_data) THEN JNone
         ELSE LET rd == response_data.v
                  located == LocationsUrl(rd, SearchLocations) IN
              IF Truthy(located) THEN located
              ELSE IF "choices" \in DOMAIN rd THEN AltChoicesUrl(rd.choices) ELSE JNone

\* Variant: the body's own success flag decides.
ImageUrlFoundIfBodySucceeds(image_url, data) ==
    IsDict(data) /\ Truthy(DictGet(data, "success", JNone))

\* "if image_url:" of generate_image and of _try_alternative_image_generation
ImageUrlFound(image_url, data) == Truthy(image_url)

\* The marker for "return self._try_alternative_image_generation(...)".
TryAlternative == [success |-> FALSE, alternative |-> TRUE]

\* generate_image from its completion request on: the result, or the
\* marker when the alternative method is to be tried.
GenerateImageResult(resp, chat_id) ==
    LET data == Decode(resp) IN
    IF IsExc(data) THEN Failure("Image generation failed", data.v) ELSE
    LET image_url == ImageUrlOf(data) IN
    IF IsExc(image_url) THEN Failure("Image generation failed", image_url.v)
    ELSE IF ImageUrlFound(image_url, data)
         THEN IF image_url.t \in {"str", "list"}
              THEN [data |-> data, success |-> TRUE, chat_id |-> chat_id,
                    image_url |-> image_url]
              ELSE Failure("Image generation failed", "TypeError")
    ELSE TryAlternative

NotConfigured ==
    "Image generation is not properly configured. The Qwen API appears to be returning text descriptions instead of actual images. This may be due to MCP tool configuration or API limitations."

\* _try_alternative_image_generation from its request on.
TryAlternativeImageGeneration(resp, chat_id) ==
    LET failed(e) == [success |-> FALSE,
                      chat_id |-> chat_id,
                      error |-> "Alternative image generation method failed: " \o e]
        none == [success |-> FALSE, chat_id |-> chat_id, error |-> NotConfigured,
                 suggestion |-> "different API parameters or authentication levels"]
    IN
    IF resp.kind = "transport_error" THEN failed("ConnectionError")
    ELSE IF resp.code # 200 THEN none
    ELSE IF resp.body = Undecodable THEN failed("JSONDecodeError")
    ELSE LET image_url == ExtractImageUrlFromResponse(resp.body) IN
         IF IsExc(image_url) THEN failed(image_url.v)
         ELSE IF ImageUrlFound(image_url, resp.body)
              THEN [data |-> resp.body, success |-> TRUE, chat_id |-> chat_id,
                    image_url |-> image_url]
              ELSE none

\* ----------------------------------------------------------------- state
VARIABLES
    construction,        \* what __init__ met: import, client constructor, token, probe
    direct_api_working,  \* self.direct_api_working, fixed by __init__
    performance_stats,   \* self.performance_stats
    pc,                  \* position of the current call
    op,                  \* "chat" (send_message), "image" (generate_image),
                         \* "models" (get_models), or "none" between calls
    request,             \* the caller's arguments of the current call
    directArgs,          \* arguments the Direct client operation was invoked with
    browserArgs,         \* arguments the Browser operation was invoked with
    directOut,           \* outcome of the Direct client operation of this call
    browserOut,          \* outcome of the Browser operation of this call
    ret,                 \* how the call ended: returned value or raised exception
    ev,                  \* collaborator invocations and recordings of this call
    recorded,            \* durations recorded per path since construction
    calls,               \* calls started, returned and raised since construction
    division,            \* the speed-improvement division of the latest recording
    snapshot,            \* value returned by the latest get_performance_stats
    snapshots,           \* number of get_performance_stats calls
    model_name,          \* argument of the latest _get_model_config call on its own
    model_config,        \* its return value
    tasks,               \* the concurrently served requests (coroutines)
    client_pc,           \* position of the Direct client operation in progress
    client_op,           \* the Direct client operation in progress, or "none"
    client_args,         \* its arguments
    client_chat_id,      \* its local variable chat_id
    exchanges,           \* the HTTP requests it made, with their responses
    client_result,       \* what it returned
    client_calls         \* Direct client operations called so far

orchVars == <<construction, direct_api_working, performance_stats, pc, op, request,
              directArgs, browserArgs, directOut, browserOut, ret, ev, recorded, calls,
              division, snapshot, snapshots>>
configVars == <<model_name, model_config>>
taskVars == <<tasks>>
clientVars == <<client_pc, client_op, client_args, client_chat_id, exchanges,
                client_result, client_calls>>

vars == <<orchVars, configVars, taskVars, clientVars>>

Ops == {"chat", "image", "models"}

NoEvents ==
    [direct |-> 0, get_page |-> 0, acquired |-> 0, browser |-> 0, release |-> 0,
     rec_direct |-> 0, rec_browser |-> 0, uploads |-> <<>>]
NoReturn == [kind |-> "none"]
Returned(path, value) == [kind |-> "returned", path |-> path, value |-> value]
Raised(e) == [kind |-> "raised", exc |-> e]
NoDivision == [divisor |-> Zero, performed |-> FALSE]
NoSnapshot == <<>>
NoArgs == [kind |-> "none"]
NoConfig == [category |-> "none"]

\* What the constructor can meet: the client module missing, the client
\* constructor raising, a token or none, and what get_auth_status() answers
\* when it is asked.
Constructions ==
    { [available |-> FALSE, client |-> "none", token |-> FALSE, probe |-> "none"],
      [available |-> TRUE, client |-> "raises", token |-> FALSE, probe |-> "none"] }
    \cup { [available |-> TRUE, client |-> "ok", token |-> tk, probe |-> p] :
             tk \in BOOLEAN, p \in {"success", "rejected", "raises"} }

\* Variant: the probe is made whether or not there is a token.
AuthProbedWithoutToken(c) == c.available /\ c.client = "ok"

\* Whether __init__ reaches "auth_result = self.direct_client.get_auth_status()".
AuthProbed(c) == c.available /\ c.client = "ok" /\ c.token

\* self.direct_api_working at the end of __init__
DirectWorkingAfterInit(c) == AuthProbed(c) /\ c.probe = "success"

\* __init__: what it met, and the number of authentication probes it made.
Construct(c) ==
    [available |-> c.available, client |-> c.client, token |-> c.token, probe |-> c.probe,
     probes |-> IF AuthProbed(c) THEN 1 ELSE 0]

\* The coroutines of the concurrent specification before they start.
NumTasks == 2
Tasks == 1..NumTasks
NoTask == [pc |-> "unused", direct |-> -1, browser |-> -1, seen |-> InitialStats]

Init ==
    /\ construction \in { Construct(c) : c \in Constructions }
    /\ direct_api_working = DirectWorkingAfterInit(construction)
    /\ performance_stats = InitialStats
    /\ pc = "Idle"
    /\ op = "none"
    /\ request = NoArgs
    /\ directArgs = NoArgs
    /\ browserArgs = NoArgs
    /\ directOut = NoOutcome
    /\ browserOut = NoOutcome
    /\ ret = NoReturn
    /\ ev = NoEvents
    /\ recorded = [n_direct |-> 0, n_browser |-> 0, sum_direct |-> 0, sum_browser |-> 0]
    /\ calls = [raised |-> 0, started |-> 0, returned |-> 0]
    /\ division = NoDivision
    /\ snapshot = NoSnapshot
    /\ snapshots = 0
    /\ model_name = NoName
    /\ model_config = NoConfig
    /\ tasks = [t \in Tasks |-> NoTask]
    /\ client_pc = "idle"
    /\ client_op = "none"
    /\ client_args = NoArgs
    /\ client_chat_id = JNone
    /\ exchanges = <<>>
    /\ client_result = NoReturn
    /\ client_calls = 0

\* The effect of self._record_performance(method, d, api_type) on the state.
Record(d, api_type) ==
    LET r == RecordPerformance(performance_stats, d, api_type) IN
    /\ performance_stats' = r.stats
    /\ division' = [divisor |-> r.divisor, performed |-> r.divided]
    /\ recorded' = IF api_type = "direct"
                   THEN [recorded EXCEPT !.n_direct = @ + 1, !.sum_direct = @ + d]
                   ELSE [recorded EXCEPT !.n_browser = @ + 1, !.sum_browser = @ + d]

NoRecord == UNCHANGED <<performance_stats, division, recorded>>

\* Variant: the Direct path is tried whatever the flag says.
UseDirectAlways(working) == TRUE

\* "if self.direct_api_working and self.direct_client": the client object
\* exists whenever the flag is set, and it is the enhanced client, which has
\* generate_image.
UseDirect(working) == working

\* Variant: a failed Direct attempt clears the flag.
FlagClearedByFailure(working, accepted) == working /\ accepted

\* send_message, generate_image and get_models contain no assignment to
\* self.direct_api_working: the flag after a Direct attempt.
FlagAfterAttempt(working, accepted) == working

\* Variant: a failed Direct attempt is tried again.
AfterDirectRetry(completed) == IF completed THEN "Done" ELSE "TryDirect"

\* Where the call goes after the Direct "try:" block: it returned from inside
\* the block, or execution falls through to the Browser path.
AfterDirect(completed) == IF completed THEN "Done" ELSE "AcquirePage"

\* Variant: the session is released only when the "try:" body did not raise.
ReleasesUnlessRaised(bodyRaised) == ~bodyRaised

\* "finally: self.browser_manager.release_page(page)" runs however the
\* "try:" body ends.
FinallyReleases(bodyRaised) == TRUE

\* The request a test client sends when the caller's arguments do not matter.
DefaultRequest(o) ==
    CASE o = "chat" ->
           [model_name |-> NoName, chat_id |-> JNone, prompt |-> "hi",
            use_web_search |-> FALSE, agent_name |-> JNone, file_paths |-> JNone]
      [] o = "image" -> [chat_id |-> JNone, prompt |-> "sunset"]
      [] o = "models" -> [kind |-> "models"]

\* Length of the longest file_paths list of a request.
MaxFiles == 2

\* The paths a caller names, and the file_paths arguments built from them:
\* absent, empty, or the first n paths.
AllPaths == <<"/tmp/a.txt", "/tmp/b.txt", "/tmp/c.txt">>
FilePathLists ==
    { JNone } \cup { JList([i \in 1..n |-> JStr(AllPaths[i])]) : n \in 0..MaxFiles }

\* The caller's arguments of send_message that the model distinguishes.
ChatRequests ==
    [model_name : {NoName, Name(<<"q", "w", "e", "n", "-", "c", "o", "d", "e", "r">>)},
     chat_id : {JNone, JStr("u1")},
     prompt : {"hi", "yo"},
     use_web_search : BOOLEAN,
     agent_name : {JNone, JStr("agent")},
     file_paths : {JNone, JList(<<JStr(AllPaths[1])>>)}]
    \cup { [DefaultRequest("chat") EXCEPT !.use_web_search = w, !.file_paths = f] :
             w \in BOOLEAN, f \in FilePathLists }

\* Variant: the file list is tested before the web search flag.
ChatVariantFilesFirst(r) ==
    IF Truthy(r.file_paths) THEN "send_chat_with_files"
    ELSE IF r.use_web_search THEN "send_chat_with_web_search"
    ELSE "send_chat_completion"

\* The branch of send_message's Direct path: web search, files, or plain chat.
ChatVariant(r) ==
    IF r.use_web_search THEN "send_chat_with_web_search"
    ELSE IF Truthy(r.file_paths) THEN "send_chat_with_files"
    ELSE "send_chat_completion"

\* What can happen to one upload_file(path): the file cannot be read, the
\* request fails, or it is answered without or with a file id.
UploadKinds == {"unreadable", "rejected", "no_id", "stored"}
UploadBody(path) == JDict([data |-> JDict([file_id |-> JStr("id:" \o path.v)])])
UploadCase(path, k) ==
    CASE k = "unreadable" -> [resp |-> TransportError, readable |-> FALSE]
      [] k = "rejected" -> [resp |-> Http(500, EmptyDict), readable |-> TRUE]
      [] k = "no_id" -> [resp |-> Http(200, EmptyDict), readable |-> TRUE]
      [] k = "stored" -> [resp |-> Http(200, UploadBody(path)), readable |-> TRUE]

\* "for file_path in file_paths: upload_result = upload_file(file_path)":
\* the uploads of the files variant, in list order; no other variant uploads.
UploadRuns(o, r) ==
    IF o = "chat" /\ ChatVariant(r) = "send_chat_with_files"
    THEN LET paths == r.file_paths.v IN
         { [i \in 1..Len(paths) |->
              LET c == UploadCase(paths[i], k[i]) IN
              [result |-> UploadFile(c.readable, c.resp), path |-> paths[i],
               posted |-> c.readable]] :
           k \in [1..Len(paths) -> UploadKinds] }
    ELSE { <<>> }

\* "if upload_result.get('success'): file_ids.append(upload_result['file_id'])"
FileIds(uploads) ==
    LET ok == SelectSeq(uploads, LAMBDA u : u.result.success) IN
    JList([i \in 1..Len(ok) |-> ok[i].result.file_id])

\* The arguments of the Direct client operation; file_ids is the second
\* argument of send_chat_with_files and absent from the other variants.
DirectArgs(o, r, uploads) ==
    CASE o = "chat" ->
           [message |-> r.prompt, chat_id |-> r.chat_id, model_config |-> GetModelConfig(r.model_name),
            operation |-> ChatVariant(r),
            model |-> EffectiveModel(r.model_name),
            file_ids |-> IF ChatVariant(r) = "send_chat_with_files"
                         THEN FileIds(uploads) ELSE JNone]
      [] o = "image" -> [chat_id |-> r.chat_id, prompt |-> r.prompt,
                         operation |-> "generate_image"]
      [] o = "models" -> [operation |-> "get_available_models"]

\* Variant: the model name substituted for the Direct path is passed on.
BrowserArgsEffectiveModel(o, r) ==
    CASE o = "chat" ->
           [model_name |-> EffectiveModel(r.model_name), chat_id |-> r.chat_id, prompt |-> r.prompt,
            use_web_search |-> r.use_web_search, agent_name |-> r.agent_name,
            file_paths |-> r.file_paths, operation |-> "ask_qwen"]
      [] o = "image" -> [prompt |-> r.prompt, operation |-> "generate_qwen_image"]
      [] o = "models" -> [operation |-> "get_available_models"]

\* The arguments of the Browser operation (besides the page).
BrowserArgs(o, r) ==
    CASE o = "chat" ->
           [model_name |-> r.model_name, chat_id |-> r.chat_id, prompt |-> r.prompt,
            use_web_search |-> r.use_web_search, agent_name |-> r.agent_name,
            file_paths |-> r.file_paths, operation |-> "ask_qwen"]
      [] o = "image" -> [prompt |-> r.prompt, operation |-> "generate_qwen_image"]
      [] o = "models" -> [operation |-> "get_available_models"]

\* Entry of send_message / generate_image / get_models with arguments r, up
\* to the test of the flag.
CallWith(o, r) ==
    /\ pc = "Idle"
    /\ calls.started < MaxCalls
    /\ op' = o
    /\ request' = r
    /\ pc' = IF UseDirect(direct_api_working) THEN "TryDirect" ELSE "AcquirePage"
    /\ calls' = [calls EXCEPT !.started = @ + 1]
    /\ directArgs' = NoArgs
    /\ browserArgs' = NoArgs
    /\ directOut' = NoOutcome
    /\ browserOut' = NoOutcome
    /\ ret' = NoReturn
    /\ ev' = NoEvents
    /\ UNCHANGED <<construction, direct_api_working, snapshot, snapshots>>
    /\ NoRecord
    /\ UNCHANGED <<configVars, taskVars, clientVars>>

Call(o) == CallWith(o, DefaultRequest(o))

\* The "try:" block of the Direct path: one Direct client operation, the
\* judgement of its result, the recording and the return; every exception
\* inside the block is caught and leads on to the Browser path.
TryDirect ==
    /\ pc = "TryDirect"
    /\ \E out \in DirectOutcomes(op), d \in Durations, uploads \in UploadRuns(op, request) :
         LET accepted == out.kind = "result" /\ DirectAccepted(op, out.result)
             r == RecordPerformance(performance_stats, d, "direct")
             failsAfter == r.raised \/ (op = "chat" /\ ExtractResponse(out.result).raised)
         IN
         /\ directOut' = out
         /\ directArgs' = DirectArgs(op, request, uploads)
         /\ direct_api_working' = FlagAfterAttempt(direct_api_working, accepted)
         /\ pc' = AfterDirect(accepted /\ ~failsAfter)
         /\ IF accepted
            THEN /\ Record(d, "direct")
                 /\ ev' = [ev EXCEPT !.direct = @ + 1, !.rec_direct = @ + 1,
                                     !.uploads = uploads]
                 /\ ret' = IF failsAfter
                           THEN ret
                           ELSE Returned("direct", DirectReturn(op, out.result))
            ELSE /\ NoRecord
                 /\ ev' = [ev EXCEPT !.direct = @ + 1, !.uploads = uploads]
                 /\ ret' = ret
    /\ UNCHANGED <<construction, op, request, browserArgs, browserOut, calls,
                   snapshot, snapshots>>
    /\ UNCHANGED <<configVars, taskVars, clientVars>>

\* "page = await self.browser_manager.get_page()".  In send_message and
\* get_models it precedes the "try:", so an exception leaves the call; in
\* generate_image it is inside the "try:", the exception is turned into a
\* failure result and release_page(page) fails on the unbound name.
AcquirePage ==
    /\ pc = "AcquirePage"
    /\ \E ok \in BOOLEAN :
         IF ok
         THEN /\ ev' = [ev EXCEPT !.get_page = @ + 1, !.acquired = @ + 1]
              /\ pc' = "TryBrowser"
              /\ ret' = ret
         ELSE /\ ev' = [ev EXCEPT !.get_page = @ + 1]
              /\ pc' = "Done"
              /\ ret' = IF op = "image"
                        THEN Returned("none", ImageFailure("PageError"))
                        ELSE Raised("PageError")
    /\ UNCHANGED <<construction, direct_api_working, op, request, directArgs, browserArgs,
                   directOut, browserOut, calls, snapshot, snapshots>>
    /\ NoRecord
    /\ UNCHANGED <<configVars, taskVars, clientVars>>

\* The Browser operation with the session held, the recording, the return
\* and the "finally:" release.
TryBrowser ==
    /\ pc = "TryBrowser"
    /\ \E out \in BrowserOutcomes(op), d \in Durations :
         LET r == RecordPerformance(performance_stats, d, "browser")
             bodyRaised == out.kind = "raise" \/ r.raised
             released == IF FinallyReleases(bodyRaised) THEN 1 ELSE 0
         IN
         /\ browserOut' = out
         /\ browserArgs' = BrowserArgs(op, request)
         /\ IF out.kind = "raise"
            THEN /\ NoRecord
                 /\ ev' = [ev EXCEPT !.browser = @ + 1, !.release = @ + released]
                 /\ ret' = IF op = "image"
                           THEN Returned("none", ImageFailure(out.exc))
                           ELSE Raised(out.exc)
            ELSE /\ Record(d, "browser")
                 /\ ev' = [ev EXCEPT !.browser = @ + 1, !.release = @ + released,
                                     !.rec_browser = @ + 1]
                 /\ ret' = IF r.raised
                           THEN IF op = "image"
                                THEN Returned("none", ImageFailure("ZeroDivisionError"))
                                ELSE Raised("ZeroDivisionError")
                           ELSE Returned("browser", out.result)
    /\ pc' = "Done"
    /\ UNCHANGED <<construction, direct_api_working, op, request, directArgs, directOut,
                   calls, snapshot, snapshots>>
    /\ UNCHANGED <<configVars, taskVars, clientVars>>

\* The status code of hybrid_chat_handler, hybrid_image_handler and
\* hybrid_models_handler: "200 if result.get('success') or
\* result.get('status') == 'success' else 500"; an exception that leaves the
\* handler is answered by the framework with 500.
HandlerStatus(r) ==
    IF r.kind = "raised" THEN 500
    ELSE IF \/ ("success" \in DOMAIN r.value /\ r.value.success)
            \/ ResGet(r.value, "status", JNone) = JStr("success")
         THEN 200
         ELSE 500

\* The call's result or exception reaches the request handler.
Finish ==
    /\ pc = "Done"
    /\ pc' = "Idle"
    /\ op' = "none"
    /\ calls' = IF ret.kind = "returned"
                THEN [calls EXCEPT !.returned = @ + 1]
                ELSE [calls EXCEPT !.raised = @ + 1]
    /\ request' = NoArgs
    /\ directArgs' = NoArgs
    /\ browserArgs' = NoArgs
    /\ directOut' = NoOutcome
    /\ browserOut' = NoOutcome
    /\ ret' = NoReturn
    /\ ev' = NoEvents
    /\ UNCHANGED <<construction, direct_api_working, snapshot, snapshots>>
    /\ NoRecord
    /\ UNCHANGED <<configVars, taskVars, clientVars>>

\* Variant: the derived entries are written into the stored dictionary.
StoredWithDerivedEntries(stats) == PerformanceSnapshot(stats)

\* "stats = self.performance_stats.copy()": the derived entries are added to
\* the copy, the stored dictionary is as it was.
StoredAfterSnapshot(stats) == stats

\* get_performance_stats(), served by its own request handler between calls
\* or while a call is suspended at one of its await points.
GetPerformanceStats ==
    /\ pc \in {"Idle", "AcquirePage", "TryBrowser"}
    /\ snapshots < MaxSnapshots
    /\ snapshots' = snapshots + 1
    /\ snapshot' = PerformanceSnapshot(performance_stats)
    /\ performance_stats' = StoredAfterSnapshot(performance_stats)
    /\ UNCHANGED <<construction, direct_api_working, pc, op, request, directArgs,
                   browserArgs, directOut, browserOut, ret, ev, calls, division, recorded>>
    /\ UNCHANGED <<configVars, taskVars, clientVars>>

Next ==
    \/ \E o \in Ops : Call(o)
    \/ TryDirect
    \/ AcquirePage
    \/ TryBrowser
    \/ Finish
    \/ GetPerformanceStats

Spec == Init /\ [][Next]_vars

\* ------------------------------------------- the aggregate on its own
\* Number of _record_performance calls in one behaviour of SpecAggregate.
MaxRecords == 3

\* Durations recorded in SpecAggregate range over 0..MaxRecDur.
MaxRecDur == 6

\* self._record_performance(method, d, api_type) called directly.
RecordCall ==
    /\ recorded.n_direct + recorded.n_browser < MaxRecords
    /\ \E d \in 0..MaxRecDur, api_type \in {"direct", "browser"} : Record(d, api_type)
    /\ UNCHANGED <<construction, direct_api_working, pc, op, request, directArgs,
                   browserArgs, directOut, browserOut, ret, ev, calls, snapshot, snapshots>>
    /\ UNCHANGED <<configVars, taskVars, clientVars>>

NextAggregate == RecordCall \/ GetPerformanceStats

SpecAggregate == Init /\ [][NextAggregate]_vars

\* --------------------------------------- send_message with its arguments
\* Number of send_message calls in one behaviour of SpecMessage.
MaxMessages == 1

\* send_message(prompt, chat_id, use_web_search, agent_name, model_name,
\* file_paths) as called by hybrid_chat_handler.
SendMessage ==
    /\ calls.started < MaxMessages
    /\ \E r \in ChatRequests : CallWith("chat", r)

NextMessage ==
    \/ SendMessage
    \/ TryDirect
    \/ AcquirePage
    \/ TryBrowser
    \/ Finish

SpecMessage == Init /\ [][NextMessage]_vars

\* ------------------------------------------- the capability table alone
\* model_info_handler: _get_model_config(name) for the name in the request
\* path; the name and the configuration are locals of the handler.
ResolveModel ==
    /\ model_config = NoConfig
    /\ \E name \in ModelNames :
         /\ model_name' = name
         /\ model_config' = GetModelConfig(name)
    /\ UNCHANGED <<orchVars, taskVars, clientVars>>

\* model_info_handler returns its response.
ModelInfoReturn ==
    /\ model_config # NoConfig
    /\ model_name' = NoName
    /\ model_config' = NoConfig
    /\ UNCHANGED <<orchVars, taskVars, clientVars>>

NextConfig == ResolveModel \/ ModelInfoReturn

SpecConfig == Init /\ [][NextConfig]_vars

\* ------------------------------------------- requests served concurrently
\* Quart serves each request in a coroutine of one event loop: a coroutine
\* runs until its next "await", and only there another one can run.  The
\* Direct attempt contains no await; the Browser path awaits get_page() and
\* the Browser operation.

\* Variant: the statistics as the coroutine saw them before it was suspended.
StatsSeenBeforeAwait(current, seen) == seen

\* _record_performance contains no await: it reads the statistics as they are
\* when it is called.
StatsRead(current, seen) == current

\* A request arrives and its coroutine runs up to its first await or to its
\* return: the Direct attempt with its recording, if the flag is set.
TaskDirect(t) ==
    /\ tasks[t].pc = "unused"
    /\ IF UseDirect(direct_api_working)
       THEN \E accepted \in BOOLEAN, fallsThrough \in BOOLEAN, d \in Durations :
              LET r == RecordPerformance(performance_stats, d, "direct") IN
              IF accepted
              THEN /\ Record(d, "direct")
                   /\ tasks' = [tasks EXCEPT ![t] =
                                  [pc |-> IF fallsThrough \/ r.raised
                                          THEN "get_page" ELSE "done",
                                   direct |-> d, browser |-> -1, seen |-> r.stats]]
              ELSE /\ NoRecord
                   /\ tasks' = [tasks EXCEPT ![t] =
                                  [pc |-> "get_page", direct |-> -1, browser |-> -1,
                                   seen |-> performance_stats]]
       ELSE /\ NoRecord
            /\ tasks' = [tasks EXCEPT ![t] =
                           [pc |-> "get_page", direct |-> -1, browser |-> -1,
                            seen |-> performance_stats]]
    /\ UNCHANGED <<construction, direct_api_working, pc, op, request, directArgs,
                   browserArgs, directOut, browserOut, ret, ev, calls, snapshot, snapshots>>
    /\ UNCHANGED <<configVars, clientVars>>

\* "await self.browser_manager.get_page()" completes and the coroutine runs
\* up to the await of the Browser operation, or get_page raised.
TaskGetPage(t) ==
    /\ tasks[t].pc = "get_page"
    /\ \E ok \in BOOLEAN :
         tasks' = [tasks EXCEPT ![t].pc = IF ok THEN "browser" ELSE "done",
                                ![t].seen = performance_stats]
    /\ NoRecord
    /\ UNCHANGED <<construction, direct_api_working, pc, op, request, directArgs,
                   browserArgs, directOut, browserOut, ret, ev, calls, snapshot, snapshots>>
    /\ UNCHANGED <<configVars, clientVars>>

\* The awaited Browser operation completes and the coroutine runs to its
\* end: the recording unless the operation raised.
TaskBrowser(t) ==
    /\ tasks[t].pc = "browser"
    /\ \E raises \in BOOLEAN, d \in Durations :
         IF raises
         THEN /\ NoRecord
              /\ tasks' = [tasks EXCEPT ![t].pc = "done"]
         ELSE LET r == RecordPerformance(StatsRead(performance_stats, tasks[t].seen),
                                         d, "browser") IN
              /\ performance_stats' = r.stats
              /\ division' = [divisor |-> r.divisor, performed |-> r.divided]
              /\ recorded' = [recorded EXCEPT !.n_browser = @ + 1, !.sum_browser = @ + d]
              /\ tasks' = [tasks EXCEPT ![t].pc = "done", ![t].browser = d]
    /\ UNCHANGED <<construction, direct_api_working, pc, op, request, directArgs,
                   browserArgs, directOut, browserOut, ret, ev, calls, snapshot, snapshots>>
    /\ UNCHANGED <<configVars, clientVars>>

NextConcurrent ==
    \E t \in Tasks : TaskDirect(t) \/ TaskGetPage(t) \/ TaskBrowser(t)

SpecConcurrent == Init /\ [][NextConcurrent]_vars

\* ------------------------------------------- the Direct client on its own
\* Number of Direct client operations called in one behaviour of SpecClient.
MaxClientCalls == 1

ClientOps ==
    ChatOps \cup {"generate_image", "create_new_chat", "upload_file",
                  "get_available_models", "list_conversations", "get_folders",
                  "get_auth_status", "get_user_settings"}

\* The arguments of an operation that the model distinguishes.
ClientArgs(o) ==
    CASE o \in ChatOps -> [chat_id : {JNone, JStr(""), JStr("u1")}, stream : BOOLEAN]
      [] o = "generate_image" -> [chat_id : {JNone, JStr("u1")}]
      [] o = "upload_file" -> [readable : BOOLEAN]
      [] OTHER -> { [kind |-> "plain"] }

\* Decoded bodies of the remote endpoints.
CreateBodies ==
    { JNone, EmptyDict, JList(<<>>), JDict([data |-> JNone]), JDict([data |-> EmptyDict]),
      JDict([data |-> JDict([id |-> JNone])]), JDict([data |-> JDict([id |-> JStr("")])]),
      JDict([data |-> JDict([id |-> JStr("n1")])]) }

ListBodies ==
    { JNone, EmptyDict, JDict([data |-> JNone]), JDict([data |-> JList(<<JStr("m1")>>)]),
      JList(<<JStr("m1")>>) }

PlainBodies == { JNone, EmptyDict, Body(JList(<<Choice(JStr("hi"))>>)) }

UploadBodies ==
    { EmptyDict, JDict([data |-> JNone]), JDict([data |-> JDict([file_id |-> JStr("f1")])]) }

ImageData(d) == JDict([data |-> d, success |-> JBool(TRUE)])
Message(m) == JDict([choices |-> JList(<<JDict([message |-> JDict(m)])>>)])

ImageBodies ==
    { JNone, EmptyDict,
      ImageData(JNone),
      Body(JList(<<Choice(JStr("A sunset over the sea."))>>)),
      ImageData(Message([content |-> JStr("A sunset over the sea.")])),
      ImageData(Message([content |-> JStr("Here it is: https://cdn.qwen.ai/a.png")])),
      ImageData(Message([content |-> JNone])),
      ImageData(Message([content |-> JStr(""),
                         attachments |-> JList(<<JDict([url |-> JStr("http://img/att"),
                                                        type |-> JStr("file")])>>)])),
      ImageData(JDict([tool_results |-> JList(<<JDict([image_url |-> JStr("http://img/tool"),
                                                       tool_name |-> JStr("image_gen")])>>)])),
      ImageData(JDict([tool_results |-> JList(<<JDict([url |-> JStr("http://found"),
                                                       tool_name |-> JStr("search")])>>)])),
      ImageData(JDict([mcp_results |-> JList(<<JDict([tool_name |-> JStr("wanx"),
                                                      output |-> JStr("http://img/mcp")])>>)])),
      ImageData(JDict([image_url |-> JStr("http://img/key")])),
      ImageData(JDict([image_url |-> JStr("")])),
      ImageData(JDict([url |-> JDict([href |-> JStr("http://img/obj")])])),
      JDict([data |-> JDict([image_url |-> JStr("http://img/key")]), success |-> JBool(FALSE)]) }

\* What an HTTP exchange can do when the endpoint's bodies are "bodies".
Responses(bodies) ==
    { TransportError, Http(500, Undecodable), Http(500, EmptyDict) }
    \cup { Http(code, b) : code \in {200, 201}, b \in bodies \cup {Undecodable} }

BodiesOf(o) ==
    CASE o \in ChatOps -> PlainBodies
      [] o = "generate_image" -> ImageBodies
      [] o = "create_new_chat" -> CreateBodies
      [] o = "upload_file" -> UploadBodies
      [] o \in {"get_available_models", "list_conversations", "get_folders"} -> ListBodies
      [] o \in {"get_auth_status", "get_user_settings"} -> PlainBodies

EndpointOf(o) ==
    CASE o \in ChatOps \cup {"generate_image"} -> "chat/completions"
      [] o = "create_new_chat" -> "chats/new"
      [] o = "upload_file" -> "files/upload"
      [] o = "get_available_models" -> "models"
      [] o = "list_conversations" -> "chats"
      [] o = "get_folders" -> "folders"
      [] o = "get_auth_status" -> "auths"
      [] o = "get_user_settings" -> "users/user/settings"

\* The result an operation builds from the response to its own request.
ClientResult(o, args, chat_id, resp) ==
    CASE o \in ChatOps -> ChatResult(ChatFailureText(o), args.stream, resp, chat_id)
      [] o = "generate_image" -> GenerateImageResult(resp, chat_id)
      [] o = "create_new_chat" -> CreateNewChat(resp)
      [] o = "upload_file" -> UploadFile(args.readable, resp)
      [] o = "get_available_models" -> GetAvailableModels(resp)
      [] o = "list_conversations" -> ListConversations(resp)
      [] o = "get_folders" -> GetFolders(resp)
      [] o = "get_auth_status" -> GetAuthStatus(resp)
      [] o = "get_user_settings" -> GetUserSettings(resp)

Exchange(endpoint, resp) == [resp |-> resp, endpoint |-> endpoint]

\* An operation of the client is called and runs up to its first request.
ClientCall(o) ==
    /\ client_pc = "idle"
    /\ client_calls < MaxClientCalls
    /\ \E args \in ClientArgs(o) :
         /\ client_args' = args
         /\ client_chat_id' = IF o \in ChatOps \cup {"generate_image"}
                              THEN args.chat_id ELSE JNone
         /\ IF o = "upload_file" /\ ~args.readable
            THEN /\ client_pc' = "done"
                 /\ client_result' = Returned("direct", UploadFile(FALSE, TransportError))
            ELSE /\ client_pc' = IF o \in ChatOps \cup {"generate_image"}
                                    /\ NeedsNewChat(args.chat_id)
                                 THEN "create" ELSE "request"
                 /\ client_result' = NoReturn
    /\ client_op' = o
    /\ client_calls' = client_calls + 1
    /\ exchanges' = <<>>
    /\ UNCHANGED <<orchVars, configVars, taskVars>>

\* "chat_result = self.create_new_chat()" and what the operation makes of it.
ClientCreateChat ==
    /\ client_pc = "create"
    /\ \E resp \in Responses(CreateBodies) :
         LET chat_result == CreateNewChat(resp)
             id == IF chat_result.success THEN CreatedChatId(chat_result) ELSE JNone
         IN
         /\ exchanges' = Append(exchanges, Exchange("chats/new", resp))
         /\ IF ~chat_result.success
            THEN /\ client_result' =
                      Returned("direct",
                               [success |-> FALSE,
                                error |-> IF client_op = "generate_image"
                                          THEN "Failed to create chat for image generation"
                                          ELSE "Failed to create chat"])
                 /\ client_pc' = "done"
                 /\ UNCHANGED client_chat_id
            ELSE IF IsExc(id)
            THEN /\ client_result' =
                      Returned("direct", Failure(ChatFailureText(client_op), id.v))
                 /\ client_pc' = "done"
                 /\ UNCHANGED client_chat_id
            ELSE /\ client_chat_id' = id
                 /\ client_pc' = "request"
                 /\ UNCHANGED client_result
    /\ UNCHANGED <<client_op, client_args, client_calls>>
    /\ UNCHANGED <<orchVars, configVars, taskVars>>

\* Variant: every failure of the first request leads to the alternative.
AlternativeAfterAnyFailure(r) == ~r.success

\* generate_image's "else: return self._try_alternative_image_generation(
\* prompt, chat_id)": reached only past "if image_url:", never from the
\* "except" clause.
AlternativeNext(r) == r = TryAlternative

\* The operation's own request and the result built from the response.
ClientRequest ==
    /\ client_pc = "request"
    /\ \E resp \in Responses(IF client_op \in ChatOps /\ client_args.stream
                             THEN StreamBodies ELSE BodiesOf(client_op)) :
         LET r == ClientResult(client_op, client_args, client_chat_id, resp) IN
         /\ exchanges' = Append(exchanges, Exchange(EndpointOf(client_op), resp))
         /\ IF client_op = "generate_image" /\ AlternativeNext(r)
            THEN client_pc' = "alternative" /\ UNCHANGED client_result
            ELSE client_pc' = "done" /\ client_result' = Returned("direct", r)
    /\ UNCHANGED <<client_op, client_args, client_chat_id, client_calls>>
    /\ UNCHANGED <<orchVars, configVars, taskVars>>

\* generate_image's second request, made by _try_alternative_image_generation.
ClientAlternative ==
    /\ client_pc = "alternative"
    /\ \E resp \in Responses(ImageBodies) :
         /\ exchanges' = Append(exchanges, Exchange("chat/completions", resp))
         /\ client_result' =
              Returned("direct", TryAlternativeImageGeneration(resp, client_chat_id))
    /\ client_pc' = "done"
    /\ UNCHANGED <<client_op, client_args, client_chat_id, client_calls>>
    /\ UNCHANGED <<orchVars, configVars, taskVars>>

\* The caller has the result; the operation's locals are gone.
ClientReturn ==
    /\ client_pc = "done"
    /\ client_pc' = "idle"
    /\ client_op' = "none"
    /\ client_args' = NoArgs
    /\ client_chat_id' = JNone
    /\ exchanges' = <<>>
    /\ client_result' = NoReturn
    /\ UNCHANGED client_calls
    /\ UNCHANGED <<orchVars, configVars, taskVars>>

NextClient ==
    \/ \E o \in ClientOps : ClientCall(o)
    \/ ClientCreateChat
    \/ ClientRequest
    \/ ClientAlternative
    \/ ClientReturn

SpecClient == Init /\ [][NextClient]_vars

\* =================================================================== claims
\* Shorthands for the cases the claims speak about.
DirectReturnedFailure ==
    directOut.kind = "result" /\ ~directOut.result.success
DirectFailed ==
    \/ directOut.kind = "raise"
    \/ directOut.kind = "result" /\ ~DirectAccepted(op, directOut.result)
BrowserFailed ==
    \/ browserOut.kind = "raise"
    \/ browserOut.kind = "result" /\ ~browserOut.result.success
NoImageUrl(res) ==
    "image_url" \notin DOMAIN res \/ res.image_url \in {JNone, JStr("")}
HasNested(res, c) ==
    "data" \in DOMAIN res /\ res.data = Body(JList(<<Choice(c)>>))
NestedAbsent(res) ==
    "data" \notin DOMAIN res \/ res.data \in {EmptyDict, JDict([data |-> EmptyDict])}

\* C1: a send_message call with the Direct client usable whose direct chat
\* operation returned success:false, and whose Browser operation returned a
\* result, invoked the Browser operation exactly once and returns that
\* result unchanged, whatever the statistics were before the call.
C1_FallbackPassThrough ==
    (/\ pc = "Done"
     /\ op = "chat"
     /\ direct_api_working
     /\ DirectReturnedFailure
     /\ browserOut.kind = "result")
    => (/\ ev.browser = 1
        /\ ret.kind = "returned"
        /\ ret.value = browserOut.result)

\* C2: with the Direct client marked unusable no Direct client operation is
\* ever invoked; a call goes straight to acquiring a browser session and,
\* with the session acquired, invokes the Browser operation once.
C2_UnusableGoesStraightToBrowser ==
    ~direct_api_working =>
        /\ ev.direct = 0
        /\ directOut = NoOutcome
        /\ pc # "TryDirect"
        /\ (pc \in {"TryBrowser", "Done"} => ev.get_page = 1)
        /\ (pc = "Done" /\ ev.acquired = 1 => ev.browser = 1)

C2_Witness ==
    /\ ~direct_api_working
    /\ pc = "Done"
    /\ op = "image"
    /\ ev.browser = 1
    /\ calls.started = 2

\* C3: send_message, generate_image and get_models never raise; every call
\* ends by returning a result value.
C3_NeverRaises == ret.kind # "raised"

\* C4: in generate_image a direct result with success:true but no (or an
\* empty) image_url is never returned to the caller and is not recorded as
\* a direct call; the call goes on to the Browser path.
C4_ImageWithoutUrlFallsBack ==
    (/\ op = "image"
     /\ directOut.kind = "result"
     /\ directOut.result.success
     /\ NoImageUrl(directOut.result))
    => (/\ pc \in {"AcquirePage", "TryBrowser", "Done"}
        /\ ev.rec_direct = 0
        /\ (pc \in {"TryBrowser", "Done"} => ev.get_page = 1)
        /\ (ret.kind = "returned" =>
               ret.path # "direct" /\ ret.value # directOut.result))

C4_Witness ==
    /\ pc = "Done"
    /\ op = "image"
    /\ directOut.kind = "result"
    /\ directOut.result.success
    /\ NoImageUrl(directOut.result)
    /\ ev.browser = 1
    /\ ret.kind = "returned"
    /\ ret.path = "browser"

\* C5: send_message never returns a Direct-path result with success:true
\* and an empty response text.
C5_NoEmptyDirectSuccess ==
    (/\ pc = "Done"
     /\ op = "chat"
     /\ ret.kind = "returned"
     /\ ret.path = "direct")
    => ~(ret.value.success /\ ret.value.response = JStr(""))

\* C6: when the Direct attempt failed and the Browser attempt failed too
\* (failure result or exception), the call returns a result with
\* success:false whose error is the Browser failure.
C6_BothFailSurfacesBrowserError ==
    (/\ pc = "Done"
     /\ ev.direct = 1
     /\ DirectFailed
     /\ ev.browser = 1
     /\ BrowserFailed)
    => (/\ ret.kind = "returned"
        /\ ~ret.value.success
        /\ "error" \in DOMAIN ret.value
        /\ (browserOut.kind = "result" => ret.value.error = browserOut.result.error)
        /\ (browserOut.kind = "raise" => ret.value = ImageFailure(browserOut.exc)))

\* C7: for a direct chat result returned by send_message the response text
\* is data.data.choices[0].message.content when the nested choices list is
\* present and non-empty, also when a flat response field is present, and
\* is the flat response field when the nested path is absent.
C7_ResponseNormalization ==
    (/\ pc = "Done"
     /\ op = "chat"
     /\ ret.kind = "returned"
     /\ ret.path = "direct")
    => (/\ \A c \in {JStr("hi"), JStr("")} :
              HasNested(directOut.result, c) => ret.value.response = c
        /\ (NestedAbsent(directOut.result) /\ "response" \in DOMAIN directOut.result
               => ret.value.response = directOut.result.response))

C7_Witness ==
    /\ pc = "Done"
    /\ op = "chat"
    /\ ret.kind = "returned"
    /\ ret.path = "direct"
    /\ HasNested(directOut.result, JStr("hi"))
    /\ "response" \in DOMAIN directOut.result
    /\ directOut.result.response = JStr("yo")
    /\ ret.value.response = JStr("hi")

\* C8: a call that returns a result has recorded exactly one entry, on the
\* counter of the path whose result it returns; no call records on both
\* counters; between calls the two counters add up to the number of
\* returned calls.
C8_OneRecordPerReturnedCall ==
    /\ ev.rec_direct + ev.rec_browser <= 1
    /\ (pc = "Done" /\ ret.kind = "returned" =>
           /\ ev.rec_direct + ev.rec_browser = 1
           /\ (ret.path = "direct" => ev.rec_direct = 1)
           /\ (ret.path = "browser" => ev.rec_browser = 1))
    /\ (pc = "Idle" =>
           performance_stats.direct_api_calls + performance_stats.browser_fallback_calls
               = calls.returned)

\* C9: after any sequence of _record_performance calls each path's count is
\* the number of durations recorded for it and its average times the count
\* is their sum; a recording for one path leaves the other path's count and
\* average unchanged.
C9_CountsAndMeans ==
    /\ performance_stats.direct_api_calls = recorded.n_direct
    /\ performance_stats.browser_fallback_calls = recorded.n_browser
    /\ RatMulInt(performance_stats.avg_direct_time, recorded.n_direct)
           = RatOfInt(recorded.sum_direct)
    /\ RatMulInt(performance_stats.avg_browser_time, recorded.n_browser)
           = RatOfInt(recorded.sum_browser)

C9_OtherPathUnchanged ==
    /\ (recorded'.n_direct # recorded.n_direct =>
           /\ performance_stats'.browser_fallback_calls
                  = performance_stats.browser_fallback_calls
           /\ performance_stats'.avg_browser_time = performance_stats.avg_browser_time)
    /\ (recorded'.n_browser # recorded.n_browser =>
           /\ performance_stats'.direct_api_calls = performance_stats.direct_api_calls
           /\ performance_stats'.avg_direct_time = performance_stats.avg_direct_time)

C9_RunningMean == [](C9_CountsAndMeans) /\ [][C9_OtherPathUnchanged]_vars

\* Three direct recordings summing to 12, such as 2, 4 and 6: average 4.
C9_Witness ==
    /\ recorded.n_direct = 3
    /\ recorded.sum_direct = 12
    /\ performance_stats.avg_direct_time = <<4, 1>>
    /\ recorded.n_browser = 0

\* C10: get_performance_stats includes speed_improvement exactly when both
\* averages are greater than zero, and _record_performance never divides by
\* an avg_direct_time of zero.
C10_DivisionOnlyWhenBothNonZero ==
    /\ (snapshot # NoSnapshot =>
           ("speed_improvement" \in DOMAIN snapshot
              <=> RatPos(snapshot.avg_browser_time) /\ RatPos(snapshot.avg_direct_time)))
    /\ (division.performed => division.divisor # Zero)

\* C12: a call that acquired a browser session releases it exactly once
\* before it returns or raises, whether the Browser operation succeeds,
\* returns a failure result or raises; while the Browser operation runs the
\* session is held, and nothing is released that was not acquired.
C12_ScopedAcquisition ==
    /\ ev.acquired <= 1
    /\ ev.release <= ev.acquired
    /\ pc = "TryBrowser" => ev.acquired = 1 /\ ev.release = 0
    /\ pc = "Done" => ev.release = ev.acquired

\* A Browser operation that raised with the session held, and the session
\* released once the call is over.
C12_Witness ==
    /\ pc = "Done"
    /\ browserOut.kind = "raise"
    /\ ev.acquired = 1
    /\ ev.release = 1

\* C13: direct_api_working is fixed by construction and no step of
\* send_message, generate_image, get_models or get_performance_stats changes
\* it; when construction left it false no call invokes a Direct operation,
\* and when it left it true every call invokes the Direct operation before
\* anything else, however many Direct attempts failed before.
C13_FlagIsWhatInitLeft ==
    /\ direct_api_working = DirectWorkingAfterInit(construction)
    /\ ~DirectWorkingAfterInit(construction) => pc # "TryDirect" /\ ev.direct = 0
    /\ DirectWorkingAfterInit(construction) /\ pc \in {"AcquirePage", "TryBrowser", "Done"}
          => ev.direct = 1

C13_FlagSetOnlyByInit ==
    [](C13_FlagIsWhatInitLeft) /\ [][direct_api_working' = direct_api_working]_vars

\* The second call of a process whose first Direct attempt failed has again
\* invoked the Direct operation.
C13_Witness ==
    /\ calls.started = 2
    /\ recorded.n_direct = 0
    /\ direct_api_working
    /\ ev.direct = 1
    /\ directOut # NoOutcome

\* C14: _get_model_config returns, for every name and for the absent name,
\* the configuration of the first rule in the order coder, vl/vision/qvq,
\* qwq, max/plus/235b, omni whose substring occurs in the lowercased name,
\* and the standard configuration when none occurs; so a name containing
\* "coder" in any letter case is of category coding with thinking enabled,
\* and a name with no recognized substring is standard without thinking.
C14_Rules ==
    << [category |-> "coding", subs |-> {S_coder}],
       [category |-> "vision", subs |-> {S_vl, S_vision, S_qvq}],
       [category |-> "reasoning", subs |-> {S_qwq}],
       [category |-> "advanced", subs |-> {S_max, S_plus, S_235b}],
       [category |-> "multimodal", subs |-> {S_omni}] >>

C14_Matches(i, lower) == \E x \in C14_Rules[i].subs : Contains(x, lower)

C14_FirstRuleCategory(lower) ==
    IF \E i \in 1..Len(C14_Rules) : C14_Matches(i, lower)
    THEN C14_Rules[CHOOSE i \in 1..Len(C14_Rules) :
                     /\ C14_Matches(i, lower)
                     /\ \A j \in 1..(i - 1) : ~C14_Matches(j, lower)].category
    ELSE "standard"

C14_FirstMatchingRule ==
    model_config # NoConfig =>
        LET lower == IF model_name = NoName THEN <<>> ELSE Lower(model_name.v) IN
        /\ model_config = CategoryConfig(C14_FirstRuleCategory(lower))
        /\ Contains(S_coder, lower)
             => model_config.category = "coding" /\ model_config.thinking_enabled
        /\ (\A i \in 1..Len(C14_Rules) : ~C14_Matches(i, lower))
             => model_config.category = "standard" /\ ~model_config.thinking_enabled

\* A name with "coder" in capitals that also contains the lower-priority
\* substring "vl", resolved as a coding model.
C14_Witness ==
    /\ model_name # NoName
    /\ model_name.v # Lower(model_name.v)
    /\ Contains(S_coder, Lower(model_name.v))
    /\ Contains(S_vl, Lower(model_name.v))
    /\ model_config.category = "coding"

\* C18: within one call the Direct operation is invoked at most once and the
\* Browser operation at most once, nothing is invoked before the Direct
\* attempt, the browser session is requested only after the Direct attempt
\* of the call is over, the Browser operation only after the session was
\* requested, and no operation is invoked a second time.
C18_DirectThenBrowserOnce ==
    /\ ev.direct <= 1 /\ ev.get_page <= 1 /\ ev.browser <= 1
    /\ pc \in {"Idle", "TryDirect"} => ev = NoEvents
    /\ direct_api_working /\ (pc \in {"AcquirePage", "TryBrowser"} \/ ev.get_page = 1)
          => ev.direct = 1 /\ directOut # NoOutcome
    /\ ev.browser = 1 => ev.get_page = 1 /\ pc = "Done"
    /\ pc = "TryBrowser" => ev.get_page = 1 /\ ev.browser = 0

\* A call whose Direct operation raised and whose Browser operation was
\* then invoked, once each.
C18_Witness ==
    /\ pc = "Done"
    /\ directOut.kind = "raise"
    /\ ev.direct = 1
    /\ ev.browser = 1

\* C19: a call whose direct result was accepted and recorded as a direct
\* call requests no browser session and invokes no Browser operation.
C19_NoBrowserAfterDirectSucceeded ==
    ev.rec_direct = 1 =>
        /\ pc \notin {"AcquirePage", "TryBrowser"}
        /\ ev.get_page = 0
        /\ ev.browser = 0

\* C20: when send_message falls back, the Browser operation is given the
\* caller's prompt, chat_id, use_web_search, file_paths, agent_name and
\* model_name as they were given: the model name is not replaced by the
\* default used on the Direct path, and the chat_id is the caller's even if
\* the Direct attempt returned the id of a conversation it created.
C20_BrowserGetsOriginalArguments ==
    op = "chat" /\ browserArgs # NoArgs =>
        /\ browserArgs.operation = "ask_qwen"
        /\ browserArgs.prompt = request.prompt
        /\ browserArgs.chat_id = request.chat_id
        /\ browserArgs.use_web_search = request.use_web_search
        /\ browserArgs.file_paths = request.file_paths
        /\ browserArgs.agent_name = request.agent_name
        /\ browserArgs.model_name = request.model_name

\* A call without model name and without chat_id whose Direct attempt used
\* the default model and returned a conversation id, and which then fell
\* back: the Browser operation got neither.
C20_Witness ==
    /\ pc = "Done"
    /\ browserArgs # NoArgs
    /\ request.model_name = NoName
    /\ request.chat_id = JNone
    /\ directArgs # NoArgs
    /\ directArgs.model = DefaultModel
    /\ directOut.kind = "result"
    /\ "chat_id" \in DOMAIN directOut.result
    /\ browserArgs.model_name = NoName
    /\ browserArgs.chat_id = JNone

\* C11: with the requests served concurrently, interleaving only at await
\* points, once all of them have completed each path's counter is the number
\* of requests that made a recording on that path and each average times its
\* counter is the sum of the durations those requests recorded.
C11_Recordings(path) ==
    { t \in Tasks : (IF path = "direct" THEN tasks[t].direct ELSE tasks[t].browser) >= 0 }

RECURSIVE C11_Sum(_, _)
C11_Sum(path, ts) ==
    IF ts = {} THEN 0
    ELSE LET t == CHOOSE x \in ts : TRUE IN
         (IF path = "direct" THEN tasks[t].direct ELSE tasks[t].browser)
           + C11_Sum(path, ts \ {t})

C11_NoLostUpdate ==
    (\A t \in Tasks : tasks[t].pc = "done") =>
        /\ performance_stats.direct_api_calls = Cardinality(C11_Recordings("direct"))
        /\ performance_stats.browser_fallback_calls = Cardinality(C11_Recordings("browser"))
        /\ RatMulInt(performance_stats.avg_direct_time, performance_stats.direct_api_calls)
               = RatOfInt(C11_Sum("direct", C11_Recordings("direct")))
        /\ RatMulInt(performance_stats.avg_browser_time,
                     performance_stats.browser_fallback_calls)
               = RatOfInt(C11_Sum("browser", C11_Recordings("browser")))

\* All requests were suspended in the Browser operation before any of them
\* recorded, and then recorded different durations.
C11_Witness ==
    /\ \A t \in Tasks : /\ tasks[t].pc = "done"
                        /\ tasks[t].browser >= 0
                        /\ tasks[t].seen.browser_fallback_calls = 0
    /\ \E t, u \in Tasks : tasks[t].browser # tasks[u].browser

\* C15: a Direct client operation one of whose HTTP requests raised a
\* transport error, got a non-2xx status, got a body that cannot be decoded
\* or got a body without the field the operation reads from it, returns a
\* result with success:false and an error text, and does not raise.
C15_LacksExpectedField(endpoint, body) ==
    CASE endpoint = "chats/new" ->
           ~(IsDict(body) /\ "data" \in DOMAIN body.v /\ IsDict(body.v.data)
             /\ "id" \in DOMAIN body.v.data.v)
      [] endpoint = "files/upload" ->
           ~(IsDict(body) /\ "data" \in DOMAIN body.v /\ IsDict(body.v.data)
             /\ "file_id" \in DOMAIN body.v.data.v)
      [] endpoint = "models" -> ~(body.t = "list" \/ (IsDict(body) /\ "data" \in DOMAIN body.v))
      [] endpoint \in {"chats", "folders"} -> ~(IsDict(body) /\ "data" \in DOMAIN body.v)
      [] OTHER -> FALSE

C15_FailedExchange(x) ==
    \/ x.resp.kind = "transport_error"
    \/ /\ x.resp.kind = "response"
       /\ \/ x.resp.code \notin 200..299
          \/ x.resp.body = Undecodable
          \/ C15_LacksExpectedField(x.endpoint, x.resp.body)

C15_FailedRequestGivesFailure ==
    client_pc = "done" /\ (\E i \in 1..Len(exchanges) : C15_FailedExchange(exchanges[i])) =>
        /\ client_result.kind = "returned"
        /\ ~client_result.value.success
        /\ "error" \in DOMAIN client_result.value
        /\ client_result.value.error # ""

\* C16: a chat operation of the Direct client that succeeds has, when it was
\* given no chat_id, made exactly one create-conversation request followed by
\* the completion request and returns the id of the conversation created;
\* when it was given a chat_id it has made the completion request only and
\* returns the chat_id it was given.
C16_Endpoints == [i \in 1..Len(exchanges) |-> exchanges[i].endpoint]

C16_ConversationThreading ==
    client_op \in ChatOps /\ client_pc = "done" /\ client_result.value.success =>
        IF Truthy(client_args.chat_id)
        THEN /\ C16_Endpoints = <<"chat/completions">>
             /\ client_result.value.chat_id = client_args.chat_id
        ELSE /\ C16_Endpoints = <<"chats/new", "chat/completions">>
             /\ client_result.value.chat_id = exchanges[1].resp.body.v.data.v.id

\* A chat without chat_id that succeeded with the id of the new conversation.
C16_Witness ==
    /\ client_op = "send_chat_completion"
    /\ client_pc = "done"
    /\ client_args.chat_id = JNone
    /\ ~client_args.stream
    /\ client_result.value.success
    /\ client_result.value.chat_id = JStr("n1")
    /\ Len(exchanges) = 2

\* C17: the Direct client's generate_image returns success:true only with a
\* non-empty image_url, the one extracted from the response body it received
\* last; whenever that body yields no image URL, as a body whose message
\* content is plain text, or a request failed, it returns success:false.
C17_LastExchange == exchanges[Len(exchanges)]

C17_Extracted ==
    IF exchanges = <<>> \/ C17_LastExchange.endpoint # "chat/completions" THEN JNone
    ELSE IF IsExc(Decode(C17_LastExchange.resp)) THEN JNone
    ELSE IF Len(SelectSeq(exchanges, LAMBDA x : x.endpoint = "chat/completions")) = 1
         THEN ImageUrlOf(C17_LastExchange.resp.body)
         ELSE ExtractImageUrlFromResponse(C17_LastExchange.resp.body)

C17_PlainText(body) ==
    body \in { Body(JList(<<Choice(JStr("A sunset over the sea."))>>)),
               ImageData(Message([content |-> JStr("A sunset over the sea.")])) }

C17_ImageSuccessNeedsUrl ==
    client_op = "generate_image" /\ client_pc = "done" =>
        LET result == client_result.value IN
        /\ result.success =>
             /\ "image_url" \in DOMAIN result
             /\ result.image_url.t = "str" /\ result.image_url.v # ""
             /\ result.image_url = C17_Extracted
        /\ ~(C17_Extracted.t = "str" /\ C17_Extracted.v # "") =>
             ~result.success /\ "error" \in DOMAIN result

\* Both the image request and the alternative request were answered with
\* status 200 and a plain-text message: the result is a failure.
C17_Witness ==
    /\ client_op = "generate_image"
    /\ client_pc = "done"
    /\ Len(exchanges) >= 2
    /\ \A i \in (Len(exchanges) - 1)..Len(exchanges) :
         /\ exchanges[i].endpoint = "chat/completions"
         /\ exchanges[i].resp.kind = "response"
         /\ exchanges[i].resp.code = 200
         /\ C17_PlainText(exchanges[i].resp.body)
    /\ ~client_result.value.success

C22_StoredKeys ==
    {"direct_api_calls", "browser_fallback_calls", "avg_direct_time", "avg_browser_time"}

C22_CountersGrow ==
    /\ performance_stats'.direct_api_calls >= performance_stats.direct_api_calls
    /\ performance_stats'.browser_fallback_calls >= performance_stats.browser_fallback_calls

C22_SnapshotReadOnly ==
    snapshots' # snapshots =>
        /\ performance_stats' = performance_stats
        /\ \A k \in C22_StoredKeys : snapshot'[k] = performance_stats[k]

C22_MonotoneAndReadOnly ==
    /\ [](DOMAIN performance_stats = C22_StoredKeys)
    /\ [][C22_CountersGrow]_vars
    /\ [][C22_SnapshotReadOnly]_vars

\* A snapshot taken after a direct recording carries the ratios, and the
\* stored dictionary does not.
C22_Witness ==
    /\ snapshots = 1
    /\ performance_stats.direct_api_calls >= 1
    /\ "direct_api_ratio" \in DOMAIN snapshot
    /\ "direct_api_ratio" \notin DOMAIN performance_stats

\* C23: on the Direct path with web search off and a non-empty file_paths
\* list, one upload request is issued per path in list order and the chat
\* request's files list carries one collected file id per path, in order.
C23_FilesVariantSent ==
    /\ directArgs # NoArgs
    /\ directArgs.operation = "send_chat_with_files"

C23_OneFileIdPerPath ==
    C23_FilesVariantSent =>
      LET paths == request.file_paths.v
          ids == directArgs.file_ids.v
      IN  /\ Len(ev.uploads) = Len(paths)
          /\ \A i \in 1..Len(paths) : ev.uploads[i].path = paths[i] /\ ev.uploads[i].posted
          /\ Len(ids) = Len(paths)
          /\ \A i \in 1..Len(paths) :
                ids[i].t = "str" /\ ids[i] = ev.uploads[i].result.file_id

\* C27: on the Direct path of send_message the configuration forwarded to
\* the Direct client is the one _get_model_config resolves for the model name
\* sent in the request, also when the default model name is substituted.
C27_ConfigOfSentModel ==
    (op = "chat" /\ directArgs # NoArgs)
    => directArgs.model_config = GetModelConfig(directArgs.model)

\* C28: on the Direct path send_message sends exactly one request variant:
\* the web-search variant whenever use_web_search is true, with no upload and
\* no attachment even if file_paths is non-empty; the file variant only when
\* use_web_search is false and file_paths is non-empty; else the plain variant.
C28_HasFiles == request.file_paths.t = "list" /\ Len(request.file_paths.v) > 0

C28_OneVariantWebSearchFirst ==
    (op = "chat" /\ directArgs # NoArgs)
    => /\ ev.direct = 1
       /\ directArgs.operation =
            (IF request.use_web_search THEN "send_chat_with_web_search"
             ELSE IF C28_HasFiles THEN "send_chat_with_files"
             ELSE "send_chat_completion")
       /\ directArgs.operation # "send_chat_with_files"
            => ev.uploads = <<>> /\ directArgs.file_ids = JNone
       /\ directArgs.operation = "send_chat_with_files"
            => Len(ev.uploads) > 0 /\ directArgs.file_ids.t = "list"

C28_Witness ==
    /\ op = "chat" /\ directArgs # NoArgs
    /\ request.use_web_search /\ C28_HasFiles
    /\ directArgs.operation = "send_chat_with_web_search"
    /\ ev.uploads = <<>>

\* C26: the /api/chat, /api/image and /api/models handlers answer 500 only
\* when both paths failed (or Direct was skipped and Browser failed); when
\* either path produced a successful result they answer 200 with that result.
C26_DirectSucceeded ==
    directOut.kind = "result" /\ DirectAccepted(op, directOut.result)
C26_BrowserSucceeded ==
    browserOut.kind = "result" /\ browserOut.result.success

C26_ServerErrorOnlyWhenBothFailed ==
    pc = "Done"
    => /\ HandlerStatus(ret) = 500 => ~C26_DirectSucceeded /\ ~C26_BrowserSucceeded
       /\ C26_DirectSucceeded \/ C26_BrowserSucceeded
            => /\ HandlerStatus(ret) = 200
               /\ ret.kind = "returned" /\ ret.value.success

\* C29: the Direct client never sends a completion request without a
\* non-empty conversation id: when chat_id is absent and the creation fails or
\* answers without a usable id, no completion request is issued.
C29_CompletionHasConversationId ==
    \A i \in 1..Len(exchanges) :
      exchanges[i].endpoint = "chat/completions"
      => client_chat_id.t = "str" /\ client_chat_id.v # ""

\* C30: one generate_image call sends at most two completion requests; the
\* second (alternative) one only after the first was answered 2xx with a
\* decodable body in which no image URL was found; a transport error or
\* non-2xx status on the first gives success:false with no second request.
C30_Completions ==
    { i \in 1..Len(exchanges) : exchanges[i].endpoint = "chat/completions" }
C30_First == exchanges[CHOOSE i \in C30_Completions : \A j \in C30_Completions : i <= j].resp
C30_FirstAnsweredWithoutUrl ==
    /\ C30_First.kind = "response"
    /\ C30_First.code \in 200..299
    /\ C30_First.body # Undecodable
    /\ ~IsExc(ImageUrlOf(C30_First.body))
    /\ ~Truthy(ImageUrlOf(C30_First.body))

C30_AtMostOneAlternative ==
    client_op = "generate_image"
    => /\ Cardinality(C30_Completions) <= 2
       /\ Cardinality(C30_Completions) = 2 \/ client_pc = "alternative"
            => C30_FirstAnsweredWithoutUrl
       /\ (client_pc = "done" /\ C30_Completions # {} /\ ~C30_FirstAnsweredWithoutUrl
            /\ (C30_First.kind = "transport_error" \/ C30_First.code >= 400))
            => Cardinality(C30_Completions) = 1 /\ ~client_result.value.success

C30_Witness ==
    /\ client_op = "generate_image"
    /\ client_pc = "done"
    /\ Cardinality(C30_Completions) = 2
    /\ exchanges[Len(exchanges)].resp.kind = "response"
    /\ ~client_result.value.success

\* C24: _handle_streaming_response stops consuming events only at an event
\* with an explicit completion marker or at the end of the stream and returns
\* success with the in-order concatenation of the delta contents up to that
\* point; a partial-content event never ends consumption, whatever its text.
C24_Streamed ==
    /\ client_pc = "done"
    /\ client_op \in ChatOps
    /\ client_args.stream
    /\ exchanges # <<>>
    /\ exchanges[Len(exchanges)].endpoint = "chat/completions"
    /\ exchanges[Len(exchanges)].resp.kind = "response"
    /\ exchanges[Len(exchanges)].resp.code \in 200..299
    /\ exchanges[Len(exchanges)].resp.body.t = "events"
C24_Stream == exchanges[Len(exchanges)].resp.body.v
C24_HasMarker(e) == IsDict(e) /\ Truthy(DictGet(e, "finish_reason", JNone))
C24_HasDelta(e) ==
    /\ IsDict(e) /\ "choices" \in DOMAIN e.v
    /\ e.v.choices.t = "list" /\ Len(e.v.choices.v) > 0
    /\ IsDict(e.v.choices.v[1]) /\ "delta" \in DOMAIN e.v.choices.v[1].v
    /\ IsDict(e.v.choices.v[1].v.delta)
C24_Text(e) ==
    IF C24_HasDelta(e) /\ "content" \in DOMAIN e.v.choices.v[1].v.delta.v
    THEN e.v.choices.v[1].v.delta.v.content.v
    ELSE ""
RECURSIVE C24_Concatenation(_)
C24_Concatenation(es) ==
    IF es = <<>> THEN ""
    ELSE C24_Text(Head(es)) \o (IF C24_HasMarker(Head(es)) THEN ""
                                 ELSE C24_Concatenation(Tail(es)))

C24_StopsOnlyAtMarker ==
    (C24_Streamed /\ \A i \in 1..Len(C24_Stream) : C24_HasDelta(C24_Stream[i]))
    => /\ client_result.value.success
       /\ client_result.value.response = JStr(C24_Concatenation(C24_Stream))

\* C25: a malformed event (data that is not JSON, JSON that is not an
\* object, an entry without a delta object) is skipped without aborting the
\* stream: the contents of the well-formed events before and after it are
\* accumulated and the result is success:true.
C25_Malformed(e) == ~C24_HasDelta(e)

C25_MalformedEventsSkipped ==
    (/\ C24_Streamed
     /\ \E i \in 1..Len(C24_Stream) : C25_Malformed(C24_Stream[i])
     /\ \A i \in 1..Len(C24_Stream) :
           C24_Stream[i] = Undecodable \/ ~RawMentionsCompleted(C24_Stream[i]))
    => /\ client_result.value.success
       /\ client_result.value.response = JStr(C24_Concatenation(C24_Stream))

====
